---- MODULE Spec2Model ----
(***************************************************************************)
(* Verification model of the ECUC configurator (pempem98/ecuc-configurator) *)
(*                                                                         *)
(*  - the orchestrating session ECUCService (service/ecuc_service.py):     *)
(*    its network maps, validate_data, generate_ecuc_project and clear;    *)
(*  - the pydantic value types CANSignal, LINSignal, CANMessage             *)
(*    (model/can_model.py, model/lin_model.py) with their construction     *)
(*    and assignment validators;                                           *)
(*  - the physical-value codec CANSignal.decode / CANSignal.encode over a  *)
(*    binary floating-point model;                                         *)
(*  - the LIN description parser LDFLoader (loader/ldf_loader.py) over     *)
(*    texts given as sequences of lexical tokens, and over the files of a  *)
(*    file system;                                                         *)
(*  - the session's load_dbc / load_ldf over the outcomes of its loaders;  *)
(*  - the loader template BaseLoader.load_and_convert and the cache of     *)
(*    CachedLoader (loader/base_loader.py).                                *)
(*                                                                         *)
(* Python values are represented as follows.  Optional[T] is a set with at *)
(* most one element ({} is None).  A dict is the sequence of its           *)
(* [key, value] entries in insertion order, with distinct keys.  A list is *)
(* a sequence.                                                             *)
(***************************************************************************)
EXTENDS Integers, Sequences, FiniteSets, TLC

VARIABLES
    \* ---- ECUCService (the session) ----
    can_networks,      \* Dict[str, CANDatabase]
    lin_networks,      \* Dict[str, LINNetwork]
    source_files,      \* List[str]
    called,            \* the last service method called on the session
    errors,            \* validate_data's local list `errors`
    result,            \* how the last call ended: a return value tag or an exception
    project,           \* Optional[ECUCProject] returned by the last call
    call_args,         \* the arguments of the last load, or those `project` was generated with
    held,              \* Optional: a project the caller keeps from an earlier call
    \* ---- model objects (pydantic construction / assignment) ----
    signal,            \* Optional: the signal object of the last construction
    signal_args,       \* the arguments of the last signal construction
    signals,           \* a message's / frame's signal list
    message,           \* Optional[CANMessage]
    message_error,     \* the error messages of the last CANMessage operation
    \* ---- codec ----
    codec,             \* the last decode/encode round trip
    \* ---- LDFLoader ----
    loader             \* the last loader call: its text, its result and the objects made

sessionVars == <<can_networks, lin_networks, source_files, called, errors, result, project,
                 call_args>>
signalVars  == <<signal, signal_args, signals>>
messageVars == <<message, message_error>>
vars == <<can_networks, lin_networks, source_files, called, errors, result, project,
          call_args, held,
          signal, signal_args, signals, message, message_error, codec, loader>>

-----------------------------------------------------------------------------
(* Bounds of the model *)

\* Total number of messages and frames a session may hold.
MaxFrames == 3

-----------------------------------------------------------------------------
(* Python helpers *)

None == {}
Some(v) == {v}

Range(s) == {s[i] : i \in 1..Len(s)}

Keys(d) == {d[i].key : i \in 1..Len(d)}

\* d[k] for a key that is present
DictGet(d, k) == (CHOOSE i \in 1..Len(d) : d[i].key = k)

\* d[k] = v : an existing key keeps its position, a new key goes last
DictSet(d, k, v) ==
    IF k \in Keys(d)
    THEN [i \in 1..Len(d) |-> IF d[i].key = k THEN [key |-> k, value |-> v] ELSE d[i]]
    ELSE Append(d, [key |-> k, value |-> v])

RECURSIVE Flatten(_)
\* the concatenation of a sequence of sequences
Flatten(ss) == IF ss = <<>> THEN <<>> ELSE Head(ss) \o Flatten(Tail(ss))

RECURSIVE SumSeq(_)
SumSeq(s) == IF s = <<>> THEN 0 ELSE Head(s) + SumSeq(Tail(s))

\* a local variable: the value is computed once and the body is evaluated with it
Bind(value, Body(_)) == CHOOSE r \in {Body(v) : v \in {value}} : TRUE

-----------------------------------------------------------------------------
(* The value types, as far as the session reads them *)

\* CANMessage.length : the alias of dlc
Length(msg) == msg.dlc

\* CANMessage.is_tx : True if sender is set
is_tx(msg) == msg.sender # None

\* CANMessage.is_rx : always True
is_rx(msg) == TRUE

NewSignal(name, start_bit, length) ==
    [name |-> name, start_bit |-> start_bit, length |-> length]

NewCANMessage(name, message_id, dlc, sender, sigs) ==
    [name |-> name, message_id |-> message_id, is_extended |-> FALSE,
     dlc |-> dlc, sender |-> sender, signals |-> sigs]

NewLINFrame(name, frame_id, length, sigs) ==
    [name |-> name, frame_id |-> frame_id, frame_type |-> "unconditional",
     length |-> length, signals |-> sigs]

NewCANDatabase(name, baudrate) ==
    [name |-> name, baudrate |-> baudrate, messages |-> <<>>]

\* baudrate is the property speed * 1000 of the network, as generation reads it
NewLINNetwork(name, master_node) ==
    [name |-> name, baudrate |-> 19200, master_node |-> master_node,
     frames |-> <<>>]

-----------------------------------------------------------------------------
(* Inputs of the session: the networks, messages and frames a caller adds *)

CanNetworkNames == {"A", "B"}
LinNetworkNames == {"A"}

\* A is a 500 kBaud network, B has no baud rate (the DBC adapter sets none)
CanBaudrate(name) == IF name = "A" THEN Some(500000) ELSE None

\* The messages a caller appends: M1 (0x100 or 0x200) and M3 (0x100) are
\* valid, their signals fit exactly (56 + 8 = 8 * 8, 8 + 8 = 2 * 8); of M2, S1
\* fits exactly (0 + 8 = 1 * 8) and S2 and S3 do not fit (4 + 8 > 8, 8 + 1 > 8).
CanMessageInputs ==
    { NewCANMessage("M1", 256, 8, Some("ECU"),
          <<NewSignal("S1", 0, 8), NewSignal("S2", 56, 8)>>),
      NewCANMessage("M1", 512, 8, Some("ECU"),
          <<NewSignal("S1", 0, 8), NewSignal("S2", 56, 8)>>),
      NewCANMessage("M3", 256, 2, None,
          <<NewSignal("S1", 8, 8)>>),
      NewCANMessage("M2", 256, 1, None,
          <<NewSignal("S1", 0, 8), NewSignal("S2", 4, 8), NewSignal("S3", 8, 1)>>) }

\* The frames a caller appends: F1 (0x10 or 0x11) and F3 (0x10) are valid, the
\* signal of F2 does not fit (60 + 8 > 1 * 8).
LinFrameInputs ==
    { NewLINFrame("F1", 16, 2, <<NewSignal("L1", 0, 8), NewSignal("L2", 8, 8)>>),
      NewLINFrame("F1", 17, 2, <<NewSignal("L1", 0, 8), NewSignal("L2", 8, 8)>>),
      NewLINFrame("F3", 16, 1, <<NewSignal("L1", 0, 8)>>),
      NewLINFrame("F2", 16, 1, <<NewSignal("L1", 60, 8)>>) }

LinMasters == {None, Some("Master")}

ProjectNames == {"Demo"}
EcuInstances == {"ECU1"}

\* the `modules` argument of generate_ecuc_project; {} is None (the default)
ModuleRequests ==
    { None, Some(<<>>), Some(<<"Can", "CanIf">>), Some(<<"LinIf", "Com", "Lin">>) }

\* the number of messages and frames the session holds
FrameCount ==
    SumSeq([i \in 1..Len(can_networks) |-> Len(can_networks[i].value.messages)])
    + SumSeq([i \in 1..Len(lin_networks) |-> Len(lin_networks[i].value.frames)])

-----------------------------------------------------------------------------
(* ECUCService.validate_data *)

\* f"Duplicate CAN message ID {msg.message_id:#x} in network '{network_name}'"
DuplicateCanIdError(msg, network_name) ==
    [kind |-> "Duplicate CAN message ID", ids |-> {msg.message_id},
     names |-> <<network_name>>]

\* f"Signal '{sig.name}' exceeds message '{msg.name}' size in network '{network_name}'"
SignalExceedsMessageError(sig, msg, network_name) ==
    [kind |-> "Signal exceeds message size", ids |-> {},
     names |-> <<sig.name, msg.name, network_name>>]

\* f"Duplicate LIN frame ID {frame.frame_id:#x} in network '{network_name}'"
DuplicateLinIdError(frame, network_name) ==
    [kind |-> "Duplicate LIN frame ID", ids |-> {frame.frame_id},
     names |-> <<network_name>>]

\* f"Signal '{sig.name}' exceeds frame '{frame.name}' size in network '{network_name}'"
SignalExceedsFrameError(sig, frame, network_name) ==
    [kind |-> "Signal exceeds frame size", ids |-> {},
     names |-> <<sig.name, frame.name, network_name>>]

\* a plausible slip: the last bit of the message counted as outside it
SignalExceeds_Inclusive(sig, byte_length) ==
    sig.start_bit + sig.length >= byte_length * 8

\* sig.start_bit + sig.length > msg.length * 8
SignalExceeds(sig, byte_length) == sig.start_bit + sig.length > byte_length * 8

\* the inner loop `for sig in msg.signals`
CanSignalErrors(msg, network_name) ==
    Flatten([i \in 1..Len(msg.signals) |->
        IF SignalExceeds(msg.signals[i], Length(msg))
        THEN <<SignalExceedsMessageError(msg.signals[i], msg, network_name)>>
        ELSE <<>>])

RECURSIVE CanMessageErrors_FailFast(_, _, _)
\* a plausible slip: the loop left at the first problem found
CanMessageErrors_FailFast(messages, message_ids, network_name) ==
    IF messages = <<>> THEN <<>>
    ELSE LET msg == Head(messages)
             here == (IF msg.message_id \in message_ids
                      THEN <<DuplicateCanIdError(msg, network_name)>> ELSE <<>>)
                     \o CanSignalErrors(msg, network_name)
         IN  IF here # <<>> THEN <<Head(here)>>
             ELSE CanMessageErrors_FailFast(Tail(messages),
                      message_ids \cup {msg.message_id}, network_name)

RECURSIVE CanMessageErrors(_, _, _)
\* the loop `for msg in network.messages`, message_ids being the ids seen so far
CanMessageErrors(messages, message_ids, network_name) ==
    IF messages = <<>> THEN <<>>
    ELSE LET msg == Head(messages) IN
         (IF msg.message_id \in message_ids
          THEN <<DuplicateCanIdError(msg, network_name)>> ELSE <<>>)
         \o CanSignalErrors(msg, network_name)
         \o CanMessageErrors(Tail(messages), message_ids \cup {msg.message_id},
                             network_name)

\* the inner loop `for sig in frame.signals`
LinSignalErrors(frame, network_name) ==
    Flatten([i \in 1..Len(frame.signals) |->
        IF SignalExceeds(frame.signals[i], frame.length)
        THEN <<SignalExceedsFrameError(frame.signals[i], frame, network_name)>>
        ELSE <<>>])

RECURSIVE LinFrameErrors(_, _, _)
\* the loop `for frame in network.frames`, frame_ids being the ids seen so far
LinFrameErrors(frames, frame_ids, network_name) ==
    IF frames = <<>> THEN <<>>
    ELSE LET frame == Head(frames) IN
         (IF frame.frame_id \in frame_ids
          THEN <<DuplicateLinIdError(frame, network_name)>> ELSE <<>>)
         \o LinSignalErrors(frame, network_name)
         \o LinFrameErrors(Tail(frames), frame_ids \cup {frame.frame_id},
                           network_name)

\* the list `errors` at the end of validate_data, for the maps cans and lins
ValidationErrors(cans, lins) ==
    Flatten([i \in 1..Len(cans) |->
        CanMessageErrors(cans[i].value.messages, {}, cans[i].key)])
    \o
    Flatten([i \in 1..Len(lins) |->
        LinFrameErrors(lins[i].value.frames, {}, lins[i].key)])

-----------------------------------------------------------------------------
(* The configuration tree (model/ecuc_model.py).  The descriptive `name` of *)
(* an element is a fixed text or a text built from the same names as its   *)
(* short_name, and is left out.                                            *)

ECUCParameterValue(short_name, definition_ref, value_type, value) ==
    [short_name |-> short_name, definition_ref |-> definition_ref,
     value_type |-> value_type, value |-> value, reference_value |-> None]

ECUCContainerValue(short_name, definition_ref, parameters, sub_containers) ==
    [short_name |-> short_name, definition_ref |-> definition_ref,
     parameters |-> parameters, sub_containers |-> sub_containers]

ECUCModuleConfigurationValues(short_name, module_def_ref, containers) ==
    [short_name |-> short_name, module_def_ref |-> module_def_ref,
     implementation_config_variant |-> "VariantPostBuild",
     containers |-> containers]

-----------------------------------------------------------------------------
(* ECUCService: the module builders *)

_generate_canif_ctrl_cfg(network_name, network) ==
    ECUCContainerValue("CanIfCtrlCfg_" \o network_name,
        "/AUTOSAR/EcucDefs/CanIf/CanIfInitCfg/CanIfCtrlCfg",
        << ECUCParameterValue("CanIfCtrlId",
               "/AUTOSAR/EcucDefs/CanIf/CanIfInitCfg/CanIfCtrlCfg/CanIfCtrlId",
               "INTEGER", Some(0)) >>,
        <<>>)

_generate_canif_tx_pdu(network_name, msg) ==
    ECUCContainerValue("CanIfTxPdu_" \o network_name \o "_" \o msg.name,
        "/AUTOSAR/EcucDefs/CanIf/CanIfInitCfg/CanIfTxPduCfg",
        << ECUCParameterValue("CanIfTxPduId",
               "/AUTOSAR/EcucDefs/CanIf/CanIfInitCfg/CanIfTxPduCfg/CanIfTxPduId",
               "INTEGER", Some(msg.message_id)),
           ECUCParameterValue("CanIfTxPduCanId",
               "/AUTOSAR/EcucDefs/CanIf/CanIfInitCfg/CanIfTxPduCfg/CanIfTxPduCanId",
               "INTEGER", Some(msg.message_id)) >>,
        <<>>)

_generate_canif_rx_pdu(network_name, msg) ==
    ECUCContainerValue("CanIfRxPdu_" \o network_name \o "_" \o msg.name,
        "/AUTOSAR/EcucDefs/CanIf/CanIfInitCfg/CanIfRxPduCfg",
        << ECUCParameterValue("CanIfRxPduId",
               "/AUTOSAR/EcucDefs/CanIf/CanIfInitCfg/CanIfRxPduCfg/CanIfRxPduId",
               "INTEGER", Some(msg.message_id)),
           ECUCParameterValue("CanIfRxPduCanId",
               "/AUTOSAR/EcucDefs/CanIf/CanIfInitCfg/CanIfRxPduCfg/CanIfRxPduCanId",
               "INTEGER", Some(msg.message_id)) >>,
        <<>>)

\* a plausible slip: a network without baud rate given the usual 500 kBaud
_generate_can_controller_DefaultBaud(network_name, network) ==
    ECUCContainerValue("CanController_" \o network_name,
        "/AUTOSAR/EcucDefs/Can/CanConfigSet/CanController",
        << ECUCParameterValue("CanControllerId",
               "/AUTOSAR/EcucDefs/Can/CanConfigSet/CanController/CanControllerId",
               "INTEGER", Some(0)),
           ECUCParameterValue("CanControllerBaudRate",
               "/AUTOSAR/EcucDefs/Can/CanConfigSet/CanController/CanControllerBaudRate",
               "INTEGER",
               IF network.baudrate = None THEN Some(500000) ELSE network.baudrate) >>,
        <<>>)

_generate_can_controller(network_name, network) ==
    ECUCContainerValue("CanController_" \o network_name,
        "/AUTOSAR/EcucDefs/Can/CanConfigSet/CanController",
        << ECUCParameterValue("CanControllerId",
               "/AUTOSAR/EcucDefs/Can/CanConfigSet/CanController/CanControllerId",
               "INTEGER", Some(0)),
           ECUCParameterValue("CanControllerBaudRate",
               "/AUTOSAR/EcucDefs/Can/CanConfigSet/CanController/CanControllerBaudRate",
               "INTEGER", network.baudrate) >>,
        <<>>)

_generate_linif_frame(frame) ==
    ECUCContainerValue("LinIfFrame_" \o frame.name,
        "/AUTOSAR/EcucDefs/LinIf/LinIfChannel/LinIfFrame",
        << ECUCParameterValue("LinIfFrameType",
               "/AUTOSAR/EcucDefs/LinIf/LinIfChannel/LinIfFrame/LinIfFrameType",
               "STRING", Some(frame.frame_type)) >>,
        <<>>)

_generate_linif_channel(network_name, network) ==
    ECUCContainerValue("LinIfChannel_" \o network_name,
        "/AUTOSAR/EcucDefs/LinIf/LinIfChannel",
        <<>>,
        [i \in 1..Len(network.frames) |-> _generate_linif_frame(network.frames[i])])

_generate_lin_channel(network_name, network) ==
    ECUCContainerValue("LinChannel_" \o network_name,
        "/AUTOSAR/EcucDefs/Lin/LinChannel",
        << ECUCParameterValue("LinChannelBaudRate",
               "/AUTOSAR/EcucDefs/Lin/LinChannel/LinChannelBaudRate",
               "INTEGER", Some(network.baudrate)) >>,
        <<>>)

\* a plausible slip: one loop over the messages, adding the Tx and the Rx
\* container of a message together
CanIfNetworkContainers_Interleaved(network_name, network) ==
    << _generate_canif_ctrl_cfg(network_name, network) >>
    \o Flatten([i \in 1..Len(network.messages) |->
          (IF is_tx(network.messages[i])
           THEN << _generate_canif_tx_pdu(network_name, network.messages[i]) >>
           ELSE <<>>)
          \o << _generate_canif_rx_pdu(network_name, network.messages[i]) >>])

\* the sub-containers one CAN network adds to CanIfInitCfg
CanIfNetworkContainers(network_name, network) ==
    LET tx == SelectSeq(network.messages, is_tx)
        rx == SelectSeq(network.messages, is_rx)
    IN  << _generate_canif_ctrl_cfg(network_name, network) >>
        \o [i \in 1..Len(tx) |-> _generate_canif_tx_pdu(network_name, tx[i])]
        \o [i \in 1..Len(rx) |-> _generate_canif_rx_pdu(network_name, rx[i])]

_generate_canif_module(cans) ==
    ECUCModuleConfigurationValues("CanIf", "/AUTOSAR/EcucDefs/CanIf",
        << ECUCContainerValue("CanIfInitCfg", "/AUTOSAR/EcucDefs/CanIf/CanIfInitCfg",
               <<>>,
               Flatten([i \in 1..Len(cans) |->
                   CanIfNetworkContainers(cans[i].key, cans[i].value)])) >>)

_generate_can_module(cans) ==
    ECUCModuleConfigurationValues("Can", "/AUTOSAR/EcucDefs/Can",
        << ECUCContainerValue("CanGeneral", "/AUTOSAR/EcucDefs/Can/CanGeneral",
               << ECUCParameterValue("CanDevErrorDetect",
                      "/AUTOSAR/EcucDefs/Can/CanGeneral/CanDevErrorDetect",
                      "BOOLEAN", Some(TRUE)) >>,
               <<>>),
           ECUCContainerValue("CanConfigSet", "/AUTOSAR/EcucDefs/Can/CanConfigSet",
               <<>>,
               [i \in 1..Len(cans) |->
                   _generate_can_controller(cans[i].key, cans[i].value)]) >>)

_generate_linif_module(lins) ==
    ECUCModuleConfigurationValues("LinIf", "/AUTOSAR/EcucDefs/LinIf",
        << ECUCContainerValue("LinIfGlobalConfig",
               "/AUTOSAR/EcucDefs/LinIf/LinIfGlobalConfig",
               << ECUCParameterValue("LinIfDevErrorDetect",
                      "/AUTOSAR/EcucDefs/LinIf/LinIfGlobalConfig/LinIfDevErrorDetect",
                      "BOOLEAN", Some(TRUE)) >>,
               <<>>) >>
        \o [i \in 1..Len(lins) |-> _generate_linif_channel(lins[i].key, lins[i].value)])

_generate_lin_module(lins) ==
    ECUCModuleConfigurationValues("Lin", "/AUTOSAR/EcucDefs/Lin",
        << ECUCContainerValue("LinGeneral", "/AUTOSAR/EcucDefs/Lin/LinGeneral",
               << ECUCParameterValue("LinDevErrorDetect",
                      "/AUTOSAR/EcucDefs/Lin/LinGeneral/LinDevErrorDetect",
                      "BOOLEAN", Some(TRUE)) >>,
               <<>>) >>
        \o [i \in 1..Len(lins) |-> _generate_lin_channel(lins[i].key, lins[i].value)])

-----------------------------------------------------------------------------
(* ECUCService.generate_ecuc_project *)

\* a plausible slip: every supported family requested, present or not
DefaultModules_Always(cans, lins) ==
    <<"CanIf", "Can", "CanTp", "PduR">> \o <<"LinIf", "Lin">>

\* `modules` when the argument is None
DefaultModules(cans, lins) ==
    (IF cans # <<>> THEN <<"CanIf", "Can", "CanTp", "PduR">> ELSE <<>>)
    \o (IF lins # <<>> THEN <<"LinIf", "Lin">> ELSE <<>>)

\* a plausible slip: the loop left at the first name that is not implemented
GeneratedModules_StopsAtUnknown(modules, cans, lins) ==
    LET unknown == {i \in 1..Len(modules) :
                       modules[i] \notin {"CanIf", "Can", "LinIf", "Lin"}}
        n == IF unknown = {} THEN Len(modules)
             ELSE (CHOOSE i \in unknown : \A j \in unknown : i <= j) - 1
    IN  [i \in 1..n |->
            CASE modules[i] = "CanIf" -> _generate_canif_module(cans)
              [] modules[i] = "Can"   -> _generate_can_module(cans)
              [] modules[i] = "LinIf" -> _generate_linif_module(lins)
              [] modules[i] = "Lin"   -> _generate_lin_module(lins)]

\* the loop `for module_name in modules`: the modules added to the value
\* collection; any other name is skipped with a warning
GeneratedModules(modules, cans, lins) ==
    Flatten([i \in 1..Len(modules) |->
        CASE modules[i] = "CanIf" -> << _generate_canif_module(cans) >>
          [] modules[i] = "Can"   -> << _generate_can_module(cans) >>
          [] modules[i] = "LinIf" -> << _generate_linif_module(lins) >>
          [] modules[i] = "Lin"   -> << _generate_lin_module(lins) >>
          [] OTHER                -> <<>>])

\* What a call draws from its environment.  ECUCService._generate_uuid is
\* str(uuid.uuid4()): every element of the tree is constructed with
\* uuid=self._generate_uuid(), the values are random, and `uuids` names the
\* sequence one call draws (the k-th element constructed holds its k-th
\* value).  `now` is datetime.now().isoformat(), the wall clock at the call.
CallOutcomes ==
    { [uuids |-> "uuids-a", now |-> "2024-01-01T00:00:00"],
      [uuids |-> "uuids-b", now |-> "2024-01-01T00:00:01"] }

ECUCProject(project_name, ecu_instance, modules, cans, lins, files, uuids, now) ==
    [short_name |-> project_name, ecu_instance |-> ecu_instance,
     value_collection |->
        [short_name |-> project_name \o "_EcucValues",
         modules |-> GeneratedModules(
                        IF modules = None THEN DefaultModules(cans, lins)
                        ELSE CHOOSE m \in modules : TRUE,
                        cans, lins)],
     source_files |-> files,
     uuids |-> uuids,
     metadata |-> [generated_at |-> now, generator |-> "ECUC Configurator Service",
                   version |-> "1.0.0"]]

\* a plausible slip: the tree built without validating first
GenerationPrecondition_Skipped(cans, lins) == <<>>

\* the errors of the `self.validate_data()` call that generation starts with
GenerationPrecondition(cans, lins) == ValidationErrors(cans, lins)

-----------------------------------------------------------------------------
(* The session: ECUCService *)

\* ECUCService.__init__
InitSession ==
    /\ can_networks = <<>>
    /\ lin_networks = <<>>
    /\ source_files = <<>>
    /\ called = "None"
    /\ errors = <<>>
    /\ result = "None"
    /\ project = None
    /\ call_args = <<>>

\* the caller drops the outcome of the previous call when it changes the session
Forget ==
    /\ called' = "None"
    /\ errors' = <<>>
    /\ result' = "None"
    /\ project' = None
    /\ call_args' = <<>>

\* self.can_networks[network.name] = network, with a new, empty CANDatabase
SetCanNetwork(key) ==
    /\ can_networks' = DictSet(can_networks, key, NewCANDatabase(key, CanBaudrate(key)))
    /\ Forget
    /\ UNCHANGED <<lin_networks, source_files>>

\* self.lin_networks[network.name] = network, with a new, empty LINNetwork
SetLinNetwork(key, master_node) ==
    /\ lin_networks' = DictSet(lin_networks, key, NewLINNetwork(key, master_node))
    /\ Forget
    /\ UNCHANGED <<can_networks, source_files>>

\* network.messages.append(message) on a network of the session
AppendCanMessage(key, msg) ==
    /\ key \in Keys(can_networks)
    /\ FrameCount < MaxFrames
    /\ LET i == DictGet(can_networks, key) IN
       can_networks' = [can_networks EXCEPT ![i].value.messages = Append(@, msg)]
    /\ Forget
    /\ UNCHANGED <<lin_networks, source_files>>

\* network.frames.append(frame) on a network of the session
AppendLinFrame(key, frame) ==
    /\ key \in Keys(lin_networks)
    /\ FrameCount < MaxFrames
    /\ LET i == DictGet(lin_networks, key) IN
       lin_networks' = [lin_networks EXCEPT ![i].value.frames = Append(@, frame)]
    /\ Forget
    /\ UNCHANGED <<can_networks, source_files>>

\* ECUCService.validate_data
ValidateData ==
    LET errs == ValidationErrors(can_networks, lin_networks) IN
    /\ called' = "validate_data"
    /\ errors' = errs
    /\ result' = IF errs # <<>> THEN "ValidationError" ELSE "True"
    /\ project' = None
    /\ call_args' = <<>>
    /\ UNCHANGED <<can_networks, lin_networks, source_files>>

\* ECUCService.generate_ecuc_project(project_name, ecu_instance, modules):
\* a failing validate_data is caught and wrapped in a GenerationError, whose
\* cause carries the validation errors
GenerateEcucProject(project_name, ecu_instance, modules) ==
    LET errs == GenerationPrecondition(can_networks, lin_networks) IN
    /\ called' = "generate_ecuc_project"
    /\ errors' = errs
    /\ result' = IF errs # <<>> THEN "GenerationError" ELSE "ECUCProject"
    /\ call_args' = IF errs # <<>> THEN <<>> ELSE <<project_name, ecu_instance, modules>>
    /\ \E outcome \in CallOutcomes :
         project' = IF errs # <<>> THEN None
                    ELSE Some(ECUCProject(project_name, ecu_instance, modules,
                                          can_networks, lin_networks, source_files,
                                          outcome.uuids, outcome.now))
    /\ UNCHANGED <<can_networks, lin_networks, source_files>>

\* a plausible slip: the source tracking left as it is
Clear_KeepsSources ==
    /\ can_networks' = <<>>
    /\ lin_networks' = <<>>
    /\ UNCHANGED source_files
    /\ Forget

\* ECUCService.clear
Clear ==
    /\ can_networks' = <<>>
    /\ lin_networks' = <<>>
    /\ source_files' = <<>>
    /\ Forget

NextSession ==
    \/ \E key \in CanNetworkNames : SetCanNetwork(key)
    \/ \E key \in LinNetworkNames, m \in LinMasters : SetLinNetwork(key, m)
    \/ \E key \in CanNetworkNames, msg \in CanMessageInputs : AppendCanMessage(key, msg)
    \/ \E key \in LinNetworkNames, frame \in LinFrameInputs : AppendLinFrame(key, frame)
    \/ ValidateData
    \/ \E pn \in ProjectNames, ei \in EcuInstances, m \in ModuleRequests :
          GenerateEcucProject(pn, ei, m)
    \/ Clear

\* no model object constructed, no conversion made and no project kept yet
ModelIdle ==
    /\ signal = None /\ signal_args = <<>> /\ signals = <<>>
    /\ message = None /\ message_error = {}
    /\ codec = <<>>
    /\ loader = <<>>
    /\ held = None

Init == InitSession /\ ModelIdle

Next == NextSession /\ UNCHANGED <<held, signal, signal_args, signals, message, message_error, codec,
                                    loader>>

Spec == Init /\ [][Next]_vars

-----------------------------------------------------------------------------
(* Vocabulary of the properties of validate_data, stated on the session    *)
(* itself and not through the operators that model the code                *)

\* the networks of the session as (kind, key, frames) with a uniform frame
\* view [name, id, bytes, signals]
SessionNetworks ==
    { [kind |-> "CAN", key |-> can_networks[n].key,
       frames |-> [i \in 1..Len(can_networks[n].value.messages) |->
           LET m == can_networks[n].value.messages[i] IN
           [name |-> m.name, id |-> m.message_id, bytes |-> m.dlc,
            signals |-> m.signals]]] : n \in 1..Len(can_networks) }
    \cup
    { [kind |-> "LIN", key |-> lin_networks[n].key,
       frames |-> [i \in 1..Len(lin_networks[n].value.frames) |->
           LET f == lin_networks[n].value.frames[i] IN
           [name |-> f.name, id |-> f.frame_id, bytes |-> f.length,
            signals |-> f.signals]]] : n \in 1..Len(lin_networks) }

\* the positions of the frames whose id equals that of an earlier frame
LaterDuplicates(net) ==
    { i \in 1..Len(net.frames) :
        \E j \in 1..(i - 1) : net.frames[j].id = net.frames[i].id }

\* the pairs of positions of frames sharing an id
DuplicatePairs(net) ==
    { p \in (1..Len(net.frames)) \X (1..Len(net.frames)) :
        p[1] < p[2] /\ net.frames[p[1]].id = net.frames[p[2]].id }

\* the (frame position, signal position) of the signals that do not fit
Offenders(net) ==
    { p \in (1..Len(net.frames)) \X (1..3) :
        /\ p[2] <= Len(net.frames[p[1]].signals)
        /\ LET sig == net.frames[p[1]].signals[p[2]] IN
           sig.start_bit + sig.length > 8 * net.frames[p[1]].bytes }

DuplicateKind(net) ==
    IF net.kind = "CAN" THEN "Duplicate CAN message ID" ELSE "Duplicate LIN frame ID"

BoundaryKind(net) ==
    IF net.kind = "CAN" THEN "Signal exceeds message size" ELSE "Signal exceeds frame size"

\* the positions in `errors` of the violations of one kind reported for a network
Reported(kind, key) ==
    { e \in 1..Len(errors) :
        errors[e].kind = kind /\ errors[e].names[Len(errors[e].names)] = key }

SessionHasViolation ==
    \E net \in SessionNetworks : DuplicatePairs(net) # {} \/ Offenders(net) # {}

\* C1: ECUCService.validate_data, when exactly two messages (frames) of one
\* network share an id and nothing else is wrong, raises a ValidationError
\* with exactly one violation, which names the id and both messages (frames).
C1_DuplicateViolationNamesBoth ==
    (/\ called = "validate_data"
     /\ \A net \in SessionNetworks : Offenders(net) = {}
     /\ Cardinality({net \in SessionNetworks : DuplicatePairs(net) # {}}) = 1
     /\ \A net \in SessionNetworks : Cardinality(DuplicatePairs(net)) <= 1)
    => /\ result = "ValidationError"
       /\ Len(errors) = 1
       /\ \A net \in SessionNetworks : \A p \in DuplicatePairs(net) :
            /\ net.frames[p[1]].id \in errors[1].ids
            /\ net.frames[p[1]].name \in Range(errors[1].names)
            /\ net.frames[p[2]].name \in Range(errors[1].names)

\* C2: validate_data never stops at the first problem: the ValidationError
\* carries, for every network, one duplicate-id violation per message (frame)
\* whose id equals that of an earlier one of the same network, and one
\* boundary violation per signal that does not fit, and nothing else.
C2_AllViolationsAccumulated ==
    called = "validate_data" =>
        /\ \A net \in SessionNetworks :
            /\ Cardinality(Reported(DuplicateKind(net), net.key))
                 = Cardinality(LaterDuplicates(net))
            /\ Cardinality(Reported(BoundaryKind(net), net.key))
                 = Cardinality(Offenders(net))
        /\ \A e \in 1..Len(errors) : \E net \in SessionNetworks :
             e \in Reported(DuplicateKind(net), net.key)
                   \cup Reported(BoundaryKind(net), net.key)

\* C2 witness: three messages of one network share an id, two of its signals
\* do not fit, and all four violations are reported
C2_Witness ==
    /\ called = "validate_data"
    /\ \E net \in SessionNetworks :
         /\ Cardinality(LaterDuplicates(net)) = 2
         /\ Cardinality(Offenders(net)) = 2
         /\ Cardinality(Reported(DuplicateKind(net), net.key)) = 2
    /\ Len(errors) = 4

\* C3: validate_data reports a boundary violation for a signal if and only if
\* start_bit + length > 8 * (length of its message or frame in bytes); it
\* returns True when there is no violation of any kind and raises
\* ValidationError otherwise.
C3_BoundaryIffExceeds ==
    called = "validate_data" =>
        /\ \A net \in SessionNetworks :
             { errors[e].names : e \in Reported(BoundaryKind(net), net.key) }
             = { << net.frames[p[1]].signals[p[2]].name, net.frames[p[1]].name,
                    net.key >> : p \in Offenders(net) }
        /\ result = IF SessionHasViolation THEN "ValidationError" ELSE "True"

\* C3 witness: in one message a signal that ends exactly at the last bit is
\* not reported and a signal that ends beyond it is
C3_Witness ==
    /\ called = "validate_data"
    /\ result = "ValidationError"
    /\ \E net \in SessionNetworks : \E i \in 1..Len(net.frames) :
         /\ \E j \in 1..Len(net.frames[i].signals) :
              /\ <<i, j>> \notin Offenders(net)
              /\ net.frames[i].signals[j].start_bit + net.frames[i].signals[j].length
                   = 8 * net.frames[i].bytes
         /\ \E j \in 1..Len(net.frames[i].signals) : <<i, j>> \in Offenders(net)
         /\ Reported(BoundaryKind(net), net.key) # {}

\* C4: validate_data raises ValidationError whenever a LIN network of the
\* session has no master node.
C4_MissingMasterReported ==
    (/\ called = "validate_data"
     /\ \E n \in 1..Len(lin_networks) : lin_networks[n].value.master_node = None)
    => result = "ValidationError"

\* C5: generate_ecuc_project validates first: on a session with a violation
\* it raises GenerationError carrying the cause and returns no project; a
\* project is returned only for a session without violation.
C5_GenerationValidatesFirst ==
    called = "generate_ecuc_project" =>
        /\ SessionHasViolation =>
             result = "GenerationError" /\ project = None /\ errors # <<>>
        /\ project # None => result = "ECUCProject" /\ ~SessionHasViolation
        /\ result \in {"GenerationError", "ECUCProject"}
        /\ result = "ECUCProject" => project # None

\* C5 witness: a generation refused because of a duplicate id
C5_Witness ==
    /\ called = "generate_ecuc_project"
    /\ result = "GenerationError"
    /\ \E net \in SessionNetworks : DuplicatePairs(net) # {}
    /\ project = None

\* C1 scenario: validate_data ran on a session whose only problem is one pair
\* of messages with different names sharing an id
C1_Scenario ==
    /\ called = "validate_data"
    /\ \A net \in SessionNetworks : Offenders(net) = {}
    /\ \E net \in SessionNetworks : \E p \in DuplicatePairs(net) :
         /\ net.frames[p[1]].name # net.frames[p[2]].name
         /\ Len(errors) = 1

\* C4 scenario: validate_data returned True on a session holding a LIN
\* network without master
C4_Scenario ==
    /\ called = "validate_data"
    /\ \E n \in 1..Len(lin_networks) : lin_networks[n].value.master_node = None
    /\ result = "True"

-----------------------------------------------------------------------------
(* CANSignal and LINSignal: construction (pydantic validation)             *)

\* the number of signals placed in one message or frame
MaxSignals == 1

\* Field(..., ge=0, le=63) of CANSignal.start_bit
MaxStartBit == 63
\* Field(..., ge=1, le=64) of CANSignal.length and LINSignal.length
MaxSignalLength == 64
\* `if end_bit > 63` of validate_signal_fits_in_message
MaxEndBit == 63

StartBits == {-1, 0, 60, 63, 64}
SignalLengths == {0, 1, 4, 5, 64, 65}

\* the field constraints of CANSignal and its field validator validate_bit_range
CANSignalFieldsValid(start_bit, length) ==
    /\ start_bit >= 0 /\ start_bit <= MaxStartBit
    /\ length >= 1 /\ length <= MaxSignalLength
    /\ ~(start_bit < 0) /\ ~(length < 0)

\* a plausible slip: the end bit compared with the bit count, not the last bit
validate_signal_fits_in_message_OffByOne(start_bit, length) ==
    LET end_bit == start_bit + length - 1 IN ~(end_bit > MaxEndBit + 1)

\* CANSignal.validate_signal_fits_in_message (both byte orders compute the
\* same end_bit); TRUE when the validator returns self, FALSE when it raises
validate_signal_fits_in_message(start_bit, length) ==
    LET end_bit == start_bit + length - 1 IN ~(end_bit > MaxEndBit)

\* CANSignal(name=..., start_bit=..., length=...): the model validator runs
\* only after every field validated
CANSignalCreated(start_bit, length) ==
    /\ CANSignalFieldsValid(start_bit, length)
    /\ validate_signal_fits_in_message(start_bit, length)

\* LINSignal(name=..., start_bit=..., length=...): start_bit has ge=0 only,
\* length has ge=1, le=64, and the class has no validator
LINSignalCreated(start_bit, length) ==
    /\ start_bit >= 0
    /\ length >= 1 /\ length <= MaxSignalLength

\* sig = CANSignal(...): an object, or a pydantic ValidationError and no object
ConstructCANSignal(start_bit, length) ==
    /\ signal_args' = <<"CANSignal", start_bit, length>>
    /\ signal' = IF CANSignalCreated(start_bit, length)
                 THEN Some([cls |-> "CANSignal", start_bit |-> start_bit,
                            length |-> length])
                 ELSE None
    /\ UNCHANGED signals

\* sig = LINSignal(...), as written by a caller or by LDFLoader.to_model for
\* the per-frame copy (start_bit = offset in the frame block)
ConstructLINSignal(start_bit, length) ==
    /\ signal_args' = <<"LINSignal", start_bit, length>>
    /\ signal' = IF LINSignalCreated(start_bit, length)
                 THEN Some([cls |-> "LINSignal", start_bit |-> start_bit,
                            length |-> length])
                 ELSE None
    /\ UNCHANGED signals

\* signals.append(sig) with the object just constructed, the list being that
\* of a CANMessage or of a LINFrame (frame_signals in LDFLoader.to_model)
PlaceSignal ==
    /\ signal # None
    /\ Len(signals) < MaxSignals
    /\ signals' = Append(signals, CHOOSE sig \in signal : TRUE)
    /\ UNCHANGED <<signal, signal_args>>

NextSignals ==
    \/ \E s \in StartBits, l \in SignalLengths : ConstructCANSignal(s, l)
    \/ \E s \in StartBits, l \in SignalLengths : ConstructLINSignal(s, l)
    \/ PlaceSignal

SpecSignals ==
    /\ Init
    /\ [][NextSignals /\ UNCHANGED <<can_networks, lin_networks, source_files, called, held,
                                     errors, result, project, call_args, message, message_error,
                                     codec, loader>>]_vars

\* C6: constructing a CAN signal with start_bit >= 0 and length >= 1 fails
\* exactly when start_bit + length > 64; no CAN signal with
\* start_bit + length > 64 is ever in a signal list.
C6_CanSignalBound ==
    /\ (/\ signal_args # <<>>
        /\ signal_args[1] = "CANSignal"
        /\ signal_args[2] >= 0
        /\ signal_args[3] >= 1)
       => (signal = None <=> signal_args[2] + signal_args[3] > 64)
    /\ \A i \in 1..Len(signals) :
         signals[i].cls = "CANSignal" => signals[i].start_bit + signals[i].length <= 64

\* C6 witness: a signal ending exactly at bit 63 was created and placed, and
\* the construction of one ending at bit 64 has just failed
C6_Witness ==
    /\ signal_args = <<"CANSignal", 60, 5>>
    /\ signal = None
    /\ \E i \in 1..Len(signals) :
         signals[i] = [cls |-> "CANSignal", start_bit |-> 60, length |-> 4]

\* C7: constructing a LIN signal whose start_bit + length exceeds 64 fails, so
\* that no such signal is ever in the signal list of a frame.
C7_LinSignalBound ==
    /\ (/\ signal_args # <<>>
        /\ signal_args[1] = "LINSignal"
        /\ signal_args[2] + signal_args[3] > 64)
       => signal = None
    /\ \A i \in 1..Len(signals) :
         signals[i].cls = "LINSignal" => signals[i].start_bit + signals[i].length <= 64

-----------------------------------------------------------------------------
(* CANMessage: construction and assignment (validate_assignment=True)      *)

\* `not is_extended and v > 0x7FF` of validate_message_id
StandardIdMax == 2047
\* Field(..., ge=0, le=0x1FFFFFFF) of CANMessage.message_id
ExtendedIdMax == 536870911
\* Field(..., ge=0, le=8) of CANMessage.dlc
MaxDlc == 8

\* -1, 0, 0x100, 0x7FF, 0x800, 0x1FFFFFFF, 0x20000000
MessageIds == {-1, 0, 256, 2047, 2048, 536870911, 536870912}
Dlcs == -1..9

\* a plausible slip: the flag ignored, every id held to the 11-bit range
validate_message_id_IgnoresFlag(v, is_extended) ==
    IF v > StandardIdMax
    THEN {"Standard frame ID must be <= 0x7FF"} ELSE {}

\* CANMessage.validate_message_id(v, info) with is_extended =
\* info.data.get('is_extended', False): the errors it raises
validate_message_id(v, is_extended) ==
    IF ~is_extended /\ v > StandardIdMax
    THEN {"Standard frame ID must be <= 0x7FF"} ELSE {}

\* the errors of the field message_id: the constraints ge=0, le=0x1FFFFFFF
\* first and, if they hold, the field validator
MessageIdErrors(v, is_extended) ==
    IF v < 0 THEN {"Input should be greater than or equal to 0"}
    ELSE IF v > ExtendedIdMax THEN {"Input should be less than or equal to 536870911"}
    ELSE validate_message_id(v, is_extended)

\* the errors of the field dlc: ge=0, le=8
DlcErrors(dlc) ==
    IF dlc < 0 THEN {"Input should be greater than or equal to 0"}
    ELSE IF dlc > MaxDlc THEN {"Input should be less than or equal to 8"}
    ELSE {}

\* msg = CANMessage(name=..., is_extended=..., message_id=..., dlc=...): the
\* fields are validated in declaration order, is_extended before message_id,
\* and the errors of all fields are raised together
ConstructCANMessage(is_extended, message_id, dlc) ==
    LET errs == MessageIdErrors(message_id, is_extended) \cup DlcErrors(dlc) IN
    /\ message_error' = errs
    /\ message' = IF errs = {}
                  THEN Some([is_extended |-> is_extended, message_id |-> message_id,
                             dlc |-> dlc])
                  ELSE None

\* msg.is_extended = value: the assigned field alone is validated, a bool
\* field without validator
AssignIsExtended(value) ==
    /\ message # None
    /\ message_error' = {}
    /\ message' = { [m EXCEPT !.is_extended = value] : m \in message }

\* msg.message_id = value: validated against the current is_extended; a
\* rejected assignment raises and leaves the message unchanged
AssignMessageId(value) ==
    /\ message # None
    /\ LET errs == UNION { MessageIdErrors(value, m.is_extended) : m \in message } IN
       /\ message_error' = errs
       /\ message' = IF errs = {}
                     THEN { [m EXCEPT !.message_id = value] : m \in message }
                     ELSE message

\* msg.dlc = value
AssignDlc(value) ==
    /\ message # None
    /\ message_error' = DlcErrors(value)
    /\ message' = IF DlcErrors(value) = {}
                  THEN { [m EXCEPT !.dlc = value] : m \in message }
                  ELSE message

NextMessage ==
    \/ \E e \in BOOLEAN, id \in MessageIds, dlc \in Dlcs : ConstructCANMessage(e, id, dlc)
    \/ \E e \in BOOLEAN : AssignIsExtended(e)
    \/ \E id \in MessageIds : AssignMessageId(id)
    \/ \E dlc \in Dlcs : AssignDlc(dlc)

SpecMessage ==
    /\ Init
    /\ [][NextMessage /\ UNCHANGED <<can_networks, lin_networks, source_files, called, held,
                                     errors, result, project, call_args, signal,
                                     signal_args, signals, codec, loader>>]_vars

\* C8: constructing a CAN message with a valid dlc succeeds exactly when its id
\* is in 0..0x7FF with the extended-frame flag false or in 0..0x1FFFFFFF with
\* the flag true; a 29-bit id above 0x7FF with the flag false is rejected with
\* an error mentioning "Standard frame".
C8_MessageIdRange ==
    [][\A e \in BOOLEAN, id \in MessageIds, dlc \in 0..8 :
          ConstructCANMessage(e, id, dlc) =>
            /\ message' # None <=>
                 \/ ~e /\ id \in 0..2047
                 \/ e /\ id \in 0..536870911
            /\ (~e /\ id > 2047 /\ id <= 536870911) =>
                 message_error' = {"Standard frame ID must be <= 0x7FF"}
            /\ message' # None => message_error' = {}]_vars

\* C8 witness: 0x800 has just been rejected as a standard frame
C8_Witness ==
    /\ message = None
    /\ message_error = {"Standard frame ID must be <= 0x7FF"}

\* C9: whatever fields of a constructed CAN message are assigned, in any
\* order, a message whose is_extended is false has message_id <= 0x7FF.
C9_IdRespectsFlag ==
    \A m \in message : ~m.is_extended => m.message_id <= 2047

-----------------------------------------------------------------------------
(* Python float: IEEE 754 binary64 arithmetic, round to nearest, ties to   *)
(* even.  A float is sign * m * 2^e with m a natural number of exactly 53  *)
(* bits (or zero).  Naturals beyond the range of TLC's integers are        *)
(* little-endian sequences of limbs in base 2^15 without leading zeros.    *)
(* Exponent overflow and subnormals do not occur for the values used.      *)

\* the precision of a Python float (the type of factor, offset and of the
\* physical value)
MantissaBits == 53

LimbBits == 15
LimbBase == 2^15

RECURSIVE BigNorm(_)
BigNorm(a) ==
    IF a = <<>> THEN <<>>
    ELSE IF a[Len(a)] = 0 THEN BigNorm(SubSeq(a, 1, Len(a) - 1)) ELSE a

RECURSIVE BigFromInt(_)
BigFromInt(n) ==
    IF n = 0 THEN <<>> ELSE <<n % LimbBase>> \o BigFromInt(n \div LimbBase)

RECURSIVE BigToInt(_)
BigToInt(a) == IF a = <<>> THEN 0 ELSE Head(a) + LimbBase * BigToInt(Tail(a))

RECURSIVE BigAddC(_, _, _)
BigAddC(a, b, c) ==
    IF a = <<>> /\ b = <<>> THEN (IF c = 0 THEN <<>> ELSE <<c>>)
    ELSE LET x == IF a = <<>> THEN 0 ELSE Head(a)
             y == IF b = <<>> THEN 0 ELSE Head(b)
             t == x + y + c
         IN  <<t % LimbBase>>
             \o BigAddC(IF a = <<>> THEN <<>> ELSE Tail(a),
                        IF b = <<>> THEN <<>> ELSE Tail(b), t \div LimbBase)

BigAdd(a, b) == BigAddC(a, b, 0)

RECURSIVE BigSubB(_, _, _)
BigSubB(a, b, borrow) ==
    IF a = <<>> THEN <<>>
    ELSE LET y == IF b = <<>> THEN 0 ELSE Head(b)
             d == Head(a) - y - borrow
         IN  <<IF d < 0 THEN d + LimbBase ELSE d>>
             \o BigSubB(Tail(a), IF b = <<>> THEN <<>> ELSE Tail(b),
                        IF d < 0 THEN 1 ELSE 0)

\* a - b for a >= b
BigSub(a, b) == BigNorm(BigSubB(a, b, 0))

RECURSIVE BigCmpAt(_, _, _)
BigCmpAt(a, b, i) ==
    IF i = 0 THEN 0
    ELSE IF a[i] # b[i] THEN (IF a[i] < b[i] THEN -1 ELSE 1)
    ELSE BigCmpAt(a, b, i - 1)

\* -1, 0, 1 as a < b, a = b, a > b
BigCmp(a, b) ==
    IF Len(a) # Len(b) THEN (IF Len(a) < Len(b) THEN -1 ELSE 1)
    ELSE BigCmpAt(a, b, Len(a))

RECURSIVE BigMulSmallC(_, _, _)
BigMulSmallC(a, d, c) ==
    IF a = <<>> THEN (IF c = 0 THEN <<>> ELSE <<c>>)
    ELSE LET t == Head(a) * d + c
         IN  <<t % LimbBase>> \o BigMulSmallC(Tail(a), d, t \div LimbBase)

\* a * d for 0 <= d < 2^15
BigMulSmall(a, d) == IF d = 0 THEN <<>> ELSE BigMulSmallC(a, d, 0)

BigShiftLimbs(a, k) == IF a = <<>> THEN <<>> ELSE [i \in 1..k |-> 0] \o a

RECURSIVE BigMulAt(_, _, _)
BigMulAt(a, b, i) ==
    IF i > Len(b) THEN <<>>
    ELSE BigAdd(BigShiftLimbs(BigMulSmall(a, b[i]), i - 1), BigMulAt(a, b, i + 1))

BigMul(a, b) == BigMulAt(a, b, 1)

RECURSIVE BigDivSmallAt(_, _, _, _)
BigDivSmallAt(a, d, i, r) ==
    IF i = 0 THEN <<>>
    ELSE LET cur == r * LimbBase + a[i]
         IN  BigDivSmallAt(a, d, i - 1, cur % d) \o <<cur \div d>>

\* a \div d for 0 < d <= 2^15
BigDivSmall(a, d) == BigNorm(BigDivSmallAt(a, d, Len(a), 0))

\* a * 2^k
BigShl(a, k) == BigShiftLimbs(BigMulSmall(a, 2^(k % LimbBits)), k \div LimbBits)

\* a \div 2^k
BigShr(a, k) ==
    IF k \div LimbBits >= Len(a) THEN <<>>
    ELSE BigDivSmall(SubSeq(a, (k \div LimbBits) + 1, Len(a)), 2^(k % LimbBits))

RECURSIVE IntBitLength(_)
IntBitLength(n) == IF n = 0 THEN 0 ELSE 1 + IntBitLength(n \div 2)

BigBitLength(a) ==
    IF a = <<>> THEN 0 ELSE LimbBits * (Len(a) - 1) + IntBitLength(a[Len(a)])

\* bit i of a, bit 0 being the lowest
BigBit(a, i) ==
    IF (i \div LimbBits) + 1 > Len(a) THEN 0
    ELSE (a[(i \div LimbBits) + 1] \div 2^(i % LimbBits)) % 2

RECURSIVE BigDigit(_, _, _, _)
\* the largest g with g * d <= r, given lo * d <= r < hi * d
BigDigit(r, d, lo, hi) ==
    IF hi - lo = 1 THEN lo
    ELSE LET mid == (lo + hi) \div 2
         IN  IF BigCmp(BigMulSmall(d, mid), r) <= 0
             THEN BigDigit(r, d, mid, hi) ELSE BigDigit(r, d, lo, mid)

RECURSIVE BigDivModAt(_, _, _, _, _)
\* long division, one limb of n at a time from the top: q holds the limbs of
\* the quotient found so far, r the remainder
BigDivModAt(n, d, i, r, q) ==
    IF i = 0 THEN <<q, r>>
    ELSE Bind(Bind(BigNorm(<<n[i]>> \o r), LAMBDA r2 :
                Bind(BigDigit(r2, d, 0, LimbBase), LAMBDA g :
                  <<g, BigSub(r2, BigMulSmall(d, g))>>)),
              LAMBDA step : BigDivModAt(n, d, i - 1, step[2], <<step[1]>> \o q))

\* <<n \div d, n % d>> for d > 0
BigDivMod(n, d) ==
    LET qr == BigDivModAt(n, d, Len(n), <<>>, <<>>) IN <<BigNorm(qr[1]), qr[2]>>

FZero == [sign |-> 1, m |-> <<>>, e |-> 0]

\* the float nearest to sign * (M + t) * 2^E, where 0 < t < 1 if sticky = 1
\* and t = 0 if sticky = 0; ties to even
FRound(sign, M, E, sticky) ==
    IF M = <<>> THEN FZero
    ELSE LET bits == BigBitLength(M) IN
         IF bits <= MantissaBits
         THEN [sign |-> sign, m |-> BigShl(M, MantissaBits - bits),
               e |-> E - (MantissaBits - bits)]
         ELSE LET shift == bits - MantissaBits
                  q == BigShr(M, shift)
                  rem == BigSub(M, BigShl(q, shift))
                  c == BigCmp(rem, BigShl(<<1>>, shift - 1))
                  up == c > 0 \/ (c = 0 /\ (sticky = 1 \/ BigBit(q, 0) = 1))
                  q2 == IF up THEN BigAdd(q, <<1>>) ELSE q
              IN  IF BigBitLength(q2) > MantissaBits
                  THEN [sign |-> sign, m |-> BigShr(q2, 1), e |-> E + shift + 1]
                  ELSE [sign |-> sign, m |-> q2, e |-> E + shift]

\* float(n) for an int n
FFromInt(n) ==
    IF n = 0 THEN FZero
    ELSE FRound(IF n < 0 THEN -1 ELSE 1, BigFromInt(IF n < 0 THEN -n ELSE n), 0, 0)

\* a * b
FMul(a, b) ==
    IF a.m = <<>> \/ b.m = <<>> THEN FZero
    ELSE FRound(a.sign * b.sign, BigMul(a.m, b.m), a.e + b.e, 0)

\* a + b; an operand more than 55 binary places below the other does not
\* change the rounded sum
FAdd(a, b) ==
    IF a.m = <<>> THEN b
    ELSE IF b.m = <<>> THEN a
    ELSE IF a.e - b.e > MantissaBits + 2 THEN a
    ELSE IF b.e - a.e > MantissaBits + 2 THEN b
    ELSE LET e == IF a.e < b.e THEN a.e ELSE b.e
             ma == BigShl(a.m, a.e - e)
             mb == BigShl(b.m, b.e - e)
             c == BigCmp(ma, mb)
         IN  IF a.sign = b.sign THEN FRound(a.sign, BigAdd(ma, mb), e, 0)
             ELSE IF c = 0 THEN FZero
             ELSE IF c > 0 THEN FRound(a.sign, BigSub(ma, mb), e, 0)
             ELSE FRound(b.sign, BigSub(mb, ma), e, 0)

\* a - b
FSub(a, b) == FAdd(a, [b EXCEPT !.sign = -b.sign])

\* a / b for b # 0
FDiv(a, b) ==
    IF a.m = <<>> THEN FZero
    ELSE LET k == MantissaBits + 2
             qr == BigDivMod(BigShl(a.m, k), b.m)
         IN  FRound(a.sign * b.sign, qr[1], a.e - k - b.e,
                    IF qr[2] = <<>> THEN 0 ELSE 1)

\* int(a): truncation toward zero
FInt(a) ==
    IF a.m = <<>> THEN 0
    ELSE a.sign * BigToInt(IF a.e >= 0 THEN BigShl(a.m, a.e) ELSE BigShr(a.m, -a.e))

-----------------------------------------------------------------------------
(* CANSignal.decode and CANSignal.encode                                   *)

\* Bit length of the signals whose raw values are converted.
MaxCodecLength == 6

\* float literals, as Python reads them
Float_0_0 == FZero
Float_1_0 == [sign |-> 1, m |-> <<0, 0, 0, 128>>, e |-> -52]
Float_0_5 == [sign |-> 1, m |-> <<0, 0, 0, 128>>, e |-> -53]
Float_0_1 == [sign |-> 1, m |-> <<6554, 13107, 26214, 204>>, e |-> -56]
Float_0_01 == [sign |-> 1, m |-> <<5243, 3932, 27525, 163>>, e |-> -59]
Float_minus_40_0 == [sign |-> -1, m |-> <<0, 0, 0, 160>>, e |-> -47]

Factors == {Float_1_0, Float_0_5, Float_0_1, Float_0_01}
Offsets == {Float_0_0, Float_0_5, Float_minus_40_0}
CodecLengths == {1, MaxCodecLength}

\* the fields of a CANSignal that the conversions read
CodecSignals == [factor : Factors, offset : Offsets, length : CodecLengths]

\* CANSignal.decode(raw_value): raw_value * self.factor + self.offset
decode(self, raw_value) == FAdd(FMul(FFromInt(raw_value), self.factor), self.offset)

\* CANSignal.encode(physical_value): int((physical_value - self.offset) / self.factor)
encode(self, physical_value) == FInt(FDiv(FSub(physical_value, self.offset), self.factor))

\* physical = sig.decode(raw), the first step of one round trip
Decode(sig, raw) ==
    /\ codec = <<>>
    /\ codec' = [signal |-> sig, raw_value |-> raw,
                 physical_value |-> decode(sig, raw), encoded |-> None]

\* sig.encode(physical) on the value decode returned
Encode ==
    /\ codec # <<>>
    /\ codec.encoded = None
    /\ codec' = [codec EXCEPT !.encoded = Some(encode(codec.signal, codec.physical_value))]

NextCodec ==
    \/ \E sig \in CodecSignals, raw \in 0..(2^MaxCodecLength - 1) :
           raw <= 2^sig.length - 1 /\ Decode(sig, raw)
    \/ Encode

SpecCodec ==
    /\ Init
    /\ [][NextCodec /\ UNCHANGED <<can_networks, lin_networks, source_files, called, held,
                                   errors, result, project, call_args, signal,
                                   signal_args, signals, message, message_error,
                                   loader>>]_vars

\* C10: encoding the physical value that decode returned for a raw value in
\* [0, 2^length - 1] gives that raw value back, for every signal whose factor
\* is not zero.
C10_RoundTrip ==
    (codec # <<>> /\ codec.encoded # None) => codec.encoded = Some(codec.raw_value)

\* the conversions that do give the raw value back
C10_Scenario ==
    codec # <<>> /\ codec.signal.factor = Float_0_01 /\ codec.raw_value = 28
        /\ codec.encoded = Some(28)

\* round(a) of Python 3: the nearest integer, ties to even; the rounding the
\* properties of encode are stated with
RoundHalfEven(a) ==
    IF a.m = <<>> THEN 0
    ELSE IF a.e >= 0 THEN a.sign * BigToInt(BigShl(a.m, a.e))
    ELSE LET q == BigShr(a.m, -a.e)
             rem == BigSub(a.m, BigShl(q, -a.e))
             c == BigCmp(rem, BigShl(<<1>>, (-a.e) - 1))
             up == c > 0 \/ (c = 0 /\ BigBit(q, 0) = 1)
         IN  a.sign * BigToInt(IF up THEN BigAdd(q, <<1>>) ELSE q)

\* C11: encode(physical) is the quotient (physical - offset) / factor rounded
\* to the nearest integer, not truncated, for every signal with factor # 0.
C11_EncodeRounds ==
    (codec # <<>> /\ codec.encoded # None) =>
        codec.encoded = Some(RoundHalfEven(
            FDiv(FSub(codec.physical_value, codec.signal.offset), codec.signal.factor)))

-----------------------------------------------------------------------------
(* Vocabulary of the properties of the generated project, stated on the    *)
(* project returned and on the session it was generated from               *)

\* the modules of the project returned by the last call
ProjectModules == UNION { Range(p.value_collection.modules) : p \in project }

\* what a container is made of: its kind (the definition path) and the type
\* and value of its parameters, in order
ContainerKind(c) ==
    [kind |-> c.definition_ref,
     values |-> [j \in 1..Len(c.parameters) |->
                    <<c.parameters[j].value_type, c.parameters[j].value>>]]

\* the messages of a network for which pick holds, in message order
RECURSIVE Picked(_, _)
Picked(messages, transmitted) ==
    IF messages = <<>> THEN <<>>
    ELSE (IF transmitted => Head(messages).sender # None
          THEN <<Head(messages)>> ELSE <<>>) \o Picked(Tail(messages), transmitted)

PduKind(kind, msg) ==
    [kind |-> "/AUTOSAR/EcucDefs/CanIf/CanIfInitCfg/" \o kind,
     values |-> << <<"INTEGER", {msg.message_id}>>, <<"INTEGER", {msg.message_id}>> >>]

\* the PDU containers the networks from the i-th on are to give
RECURSIVE ExpectedCanIf(_)
ExpectedCanIf(i) ==
    IF i > Len(can_networks) THEN <<>>
    ELSE LET net == can_networks[i].value
             tx == Picked(net.messages, TRUE)
             rx == Picked(net.messages, FALSE)
         IN  << "/AUTOSAR/EcucDefs/CanIf/CanIfInitCfg/CanIfCtrlCfg" >>
             \o [k \in 1..Len(tx) |-> PduKind("CanIfTxPduCfg", tx[k])]
             \o [k \in 1..Len(rx) |-> PduKind("CanIfRxPduCfg", rx[k])]
             \o ExpectedCanIf(i + 1)

\* C12: the CanIf module of a generated project has the single top-level
\* container CanIfInitCfg, which holds for each CAN network in insertion
\* order one CanIfCtrlCfg, then one CanIfTxPduCfg per transmitted message,
\* then one CanIfRxPduCfg per message, in message order, each PDU container
\* with two integer parameters equal to the message id.
C12_CanIfStructure ==
    \A mod \in ProjectModules : mod.short_name = "CanIf" =>
        /\ Len(mod.containers) = 1
        /\ mod.containers[1].short_name = "CanIfInitCfg"
        /\ mod.containers[1].parameters = <<>>
        /\ [k \in 1..Len(mod.containers[1].sub_containers) |->
              LET c == mod.containers[1].sub_containers[k] IN
              IF c.definition_ref = "/AUTOSAR/EcucDefs/CanIf/CanIfInitCfg/CanIfCtrlCfg"
              THEN c.definition_ref ELSE ContainerKind(c)]
           = ExpectedCanIf(1)

\* C12 witness: a project with a CanIf module generated from two CAN
\* networks, the first holding the transmitted message 0x200 and a message
\* that is only received
C12_Witness ==
    /\ \E mod \in ProjectModules : mod.short_name = "CanIf"
    /\ Len(can_networks) = 2
    /\ Len(can_networks[1].value.messages) = 2
    /\ can_networks[1].value.messages[1].sender = None
    /\ can_networks[1].value.messages[2].message_id = 512
    /\ can_networks[1].value.messages[2].sender # None
    /\ Len(can_networks[2].value.messages) = 1

\* C13: the Can module of a generated project has the two top-level
\* containers CanGeneral and CanConfigSet, in this order; CanConfigSet holds
\* one CanController per CAN network, in insertion order, with the integer
\* parameters CanControllerId = 0 and CanControllerBaudRate = the baud rate
\* of the network.
C13_CanStructure ==
    \A mod \in ProjectModules : mod.short_name = "Can" =>
        /\ [k \in 1..Len(mod.containers) |-> mod.containers[k].short_name]
             = <<"CanGeneral", "CanConfigSet">>
        /\ LET ctrls == mod.containers[2].sub_containers IN
           /\ Len(ctrls) = Len(can_networks)
           /\ \A k \in 1..Len(ctrls) :
                /\ ctrls[k].short_name = "CanController_" \o can_networks[k].key
                /\ ctrls[k].definition_ref
                     = "/AUTOSAR/EcucDefs/Can/CanConfigSet/CanController"
                /\ [j \in 1..Len(ctrls[k].parameters) |->
                       ctrls[k].parameters[j].short_name]
                     = <<"CanControllerId", "CanControllerBaudRate">>
                /\ ContainerKind(ctrls[k]).values
                     = << <<"INTEGER", {0}>>,
                          <<"INTEGER", can_networks[k].value.baudrate>> >>

\* C13 witness: a Can module generated from the networks B (no baud rate) and
\* A (500000 baud), registered in this order
C13_Witness ==
    /\ \E mod \in ProjectModules : mod.short_name = "Can"
    /\ Len(can_networks) = 2
    /\ can_networks[1].key = "B" /\ can_networks[1].value.baudrate = {}
    /\ can_networks[2].key = "A" /\ can_networks[2].value.baudrate = {500000}

\* no two containers of the list have the same short name
DistinctNames(containers) ==
    \A i, j \in 1..Len(containers) :
        i # j => containers[i].short_name # containers[j].short_name

\* C14: in every generated project no two containers with the same parent
\* container, and no two top-level containers of one module, have the same
\* short name.
C14_UniqueContainerNames ==
    \A mod \in ProjectModules :
        /\ DistinctNames(mod.containers)
        /\ \A c \in Range(mod.containers) :
             /\ DistinctNames(c.sub_containers)
             /\ \A sub \in Range(c.sub_containers) : DistinctNames(sub.sub_containers)

\* a project generated from a session that passed validation and holds two
\* messages of one name in one network
C14_Scenario ==
    /\ result = "ECUCProject"
    /\ \E i \in 1..Len(can_networks) :
         LET msgs == can_networks[i].value.messages IN
         \E a, b \in 1..Len(msgs) :
             a # b /\ msgs[a].name = msgs[b].name /\ msgs[a].message_id # msgs[b].message_id

\* the short names of the modules of a project, in order
ModuleNames(p) ==
    [k \in 1..Len(p.value_collection.modules) |-> p.value_collection.modules[k].short_name]

\* C15: generate_ecuc_project without a module list requests CanIf, Can,
\* CanTp, PduR if the session holds a CAN network, then LinIf, Lin if it holds
\* a LIN network, and nothing for an absent kind; the project returned holds
\* the supported modules of this request, in this order.
C15_DefaultModules ==
    /\ DefaultModules(can_networks, lin_networks)
         = (IF Len(can_networks) > 0
            THEN <<"CanIf", "Can", "CanTp", "PduR">> ELSE <<>>)
           \o (IF Len(lin_networks) > 0 THEN <<"LinIf", "Lin">> ELSE <<>>)
    /\ (call_args # <<>> /\ call_args[3] = None) =>
         \A p \in project :
             ModuleNames(p)
             = (IF Len(can_networks) > 0 THEN <<"CanIf", "Can">> ELSE <<>>)
               \o (IF Len(lin_networks) > 0 THEN <<"LinIf", "Lin">> ELSE <<>>)

\* C15 witness: the default request on a session with a CAN and a LIN network
\* has given the four supported modules
C15_Witness ==
    /\ call_args # <<>> /\ call_args[3] = None
    /\ Len(can_networks) > 0 /\ Len(lin_networks) > 0
    /\ \E p \in project : ModuleNames(p) = <<"CanIf", "Can", "LinIf", "Lin">>

\* the names of a request that generation implements, in request order
SupportedNames(request) ==
    SelectSeq(request, LAMBDA n : n \in {"CanIf", "Can", "LinIf", "Lin"})

\* C16: for every requested module list on a session without violation,
\* generation succeeds and the project holds one module per occurrence of a
\* supported name, in request order; any other name is skipped.
C16_UnsupportedSkipped ==
    /\ (called = "generate_ecuc_project" /\ ~SessionHasViolation) =>
         result = "ECUCProject" /\ project # None /\ call_args # <<>>
    /\ (call_args # <<>> /\ call_args[3] # None) =>
         \A p \in project, request \in call_args[3] :
             ModuleNames(p) = SupportedNames(request)

\* C16 witness: on a session that also holds a CAN network the request
\* ['LinIf', 'Com', 'Lin'] has given the modules LinIf and Lin
C16_Witness ==
    /\ call_args # <<>> /\ call_args[3] = {<<"LinIf", "Com", "Lin">>}
    /\ Len(can_networks) > 0
    /\ result = "ECUCProject"
    /\ \E p \in project : ModuleNames(p) = <<"LinIf", "Lin">>

\* a project without its identifiers and its metadata
Tree(p) == [short_name |-> p.short_name, ecu_instance |-> p.ecu_instance,
            value_collection |-> p.value_collection, source_files |-> p.source_files]

\* C17: a second generate_ecuc_project call with the same arguments on the
\* unchanged session returns the same output as the first: the same modules,
\* containers and parameters in the same order, with the same names,
\* definition paths, values, identifiers and metadata.
C17_Reproducible ==
    [][\A pn \in ProjectNames, ei \in EcuInstances, m \in ModuleRequests :
          (/\ GenerateEcucProject(pn, ei, m)
           /\ call_args = <<pn, ei, m>>
           /\ project # None)
          => project' = project]_vars

\* the part of C17 that holds: between the two calls the tree itself, read
\* without identifiers and metadata, is the same
C17_TreeReproducible ==
    [][\A pn \in ProjectNames, ei \in EcuInstances, m \in ModuleRequests :
          (/\ GenerateEcucProject(pn, ei, m)
           /\ call_args = <<pn, ei, m>>
           /\ project # None)
          => {Tree(p) : p \in project'} = {Tree(p) : p \in project}]_vars

-----------------------------------------------------------------------------
(***************************************************************************)
(* LDFLoader (loader/ldf_loader.py).                                       *)
(*                                                                         *)
(* The file content is a sequence of lexical tokens whose texts,           *)
(* concatenated, are the characters of the file: a token is a maximal run  *)
(* of word characters (a word, a decimal number, a 0x number), a decimal   *)
(* number with a fraction, a quoted string, one punctuation character, one *)
(* blank or one line break.  The regular expressions of the loader are     *)
(* translated to scans over the tokens.  No word of the texts contains one *)
(* of the literals of the expressions (Nodes, Signals, Frames,             *)
(* Schedule_tables, Master, Slaves, delay, ms, kbps, LIN_...) as a proper  *)
(* part, so that a literal matches whole tokens only.                      *)
(***************************************************************************)
Token(t, s, d, e) == [t |-> t, s |-> s, d |-> d, e |-> e]
Word(s)  == Token("w", s, <<>>, 0)
Punct(s) == Token("p", s, <<>>, 0)
Quoted(s) == Token("str", s, <<>>, 0)
Blank    == Token("sp", " ", <<>>, 0)
LineBreak == Token("nl", "\n", <<>>, 0)

RECURSIVE DigitsOf(_, _)
\* the digits of n >= 0 in the given base, most significant first
DigitsOf(n, base) ==
    IF n < base THEN <<n>> ELSE Append(DigitsOf(n \div base, base), n % base)

DecToken(n)     == Token("dec", "", DigitsOf(n, 10), 0)
HexToken(n)     == Token("hex", "", DigitsOf(n, 16), 0)
RECURSIVE PowerOfTen(_)
PowerOfTen(e) == IF e = 0 THEN 1 ELSE 10 * PowerOfTen(e - 1)

\* the decimal number n / 10^e written with e >= 1 digits after the point
RealToken(n, e) ==
    Token("real", "",
          DigitsOf(n \div PowerOfTen(e), 10)
            \o [i \in 1..e |-> (n \div PowerOfTen(e - i)) % 10],
          e)

\* digits with two points: matched by [\d.]+, not the text of a number
DotsToken == Token("dots", "1.2.3", <<>>, 0)

DigitChars == <<"0", "1", "2", "3", "4", "5", "6", "7", "8", "9",
                "a", "b", "c", "d", "e", "f">>

RECURSIVE DigitText(_)
DigitText(d) == IF d = <<>> THEN "" ELSE DigitChars[Head(d) + 1] \o DigitText(Tail(d))

\* the characters of a token
TokenText(k) ==
    CASE k.t = "dec"  -> DigitText(k.d)
      [] k.t = "hex"  -> "0x" \o DigitText(k.d)
      [] k.t = "real" -> DigitText(SubSeq(k.d, 1, Len(k.d) - k.e)) \o "."
                            \o DigitText(SubSeq(k.d, Len(k.d) - k.e + 1, Len(k.d)))
      [] k.t = "str"  -> "\"" \o k.s \o "\""
      [] OTHER        -> k.s

RECURSIVE TextOf(_)
TextOf(c) == IF c = <<>> THEN "" ELSE TokenText(Head(c)) \o TextOf(Tail(c))

RECURSIVE IntOf(_, _, _)
\* int(text, base) of a digit string, folded from the left
IntOf(d, base, acc) ==
    IF d = <<>> THEN acc ELSE IntOf(Tail(d), base, acc * base + Head(d))

\* float(text) of a token matched by [\d.]+ : the nearest binary64 value
FloatOf(k) ==
    IF k.e = 0 THEN FFromInt(IntOf(k.d, 10, 0))
    ELSE FDiv(FFromInt(IntOf(k.d, 10, 0)), FFromInt(PowerOfTen(k.e)))

\* ---- the character classes of the expressions, on tokens ----
IsSpace(k)  == k.t \in {"sp", "nl"}            \* \s
IsWordTok(k) == k.t \in {"w", "dec", "hex"}    \* \w+ over a whole token
IsNumTok(k) == k.t \in {"dec", "real", "dots"} \* [\d.]+ over a whole token


MinOf(S) == Bind(S, LAMBDA T : CHOOSE i \in T : \A j \in T : i <= j)
MaxOf(S) == Bind(S, LAMBDA T : CHOOSE i \in T : \A j \in T : i >= j)

\* the first position from i on that holds no white space (Len(c) + 1 at the end)
SkipSpace(c, i) ==
    Bind(i, LAMBDA from :
        IF from > Len(c) THEN from
        ELSE MinOf({j \in from..(Len(c) + 1) : j = Len(c) + 1 \/ ~IsSpace(c[j])}))

At(c, i, k)   == i >= 1 /\ i <= Len(c) /\ c[i] = k
IsWordAt(c, i) == i >= 1 /\ i <= Len(c) /\ IsWordTok(c[i])

\* strip(): the tokens without leading and trailing white space
Strip(c) ==
    Bind(c, LAMBDA text :
        Bind({i \in 1..Len(text) : ~IsSpace(text[i])}, LAMBDA keep :
            IF keep = {} THEN <<>> ELSE SubSeq(text, MinOf(keep), MaxOf(keep))))

RECURSIVE Split(_, _)
\* split(sep): the parts of the tokens between the separators
Split(c, sep) ==
    Bind(c, LAMBDA text :
        Bind({i \in 1..Len(text) : text[i] = sep}, LAMBDA at :
            IF at = {} THEN <<text>>
            ELSE <<SubSeq(text, 1, MinOf(at) - 1)>>
                 \o Split(SubSeq(text, MinOf(at) + 1, Len(text)), sep)))

\* ---- _parse_header ----
\* re.search(Key \s* = \s* "([^"]+)"): the first statement Key = "text"
HeaderString(c, key) ==
    LET hits == {i \in 1..Len(c) :
                    /\ c[i] = Word(key)
                    /\ At(c, SkipSpace(c, i + 1), Punct("="))
                    /\ LET v == SkipSpace(c, SkipSpace(c, i + 1) + 1)
                       IN  v <= Len(c) /\ c[v].t = "str" /\ c[v].s # ""}
    IN  IF hits = {} THEN None
        ELSE Some(c[SkipSpace(c, SkipSpace(c, MinOf(hits) + 1) + 1)].s)

\* re.search(LIN_speed \s* = \s* ([\d.]+) \s* kbps): group 1 of the first match
HeaderSpeedText(c) ==
    LET hits == {i \in 1..Len(c) :
                    /\ c[i] = Word("LIN_speed")
                    /\ At(c, SkipSpace(c, i + 1), Punct("="))
                    /\ LET v == SkipSpace(c, SkipSpace(c, i + 1) + 1)
                       IN  /\ v <= Len(c) /\ IsNumTok(c[v])
                           /\ At(c, SkipSpace(c, v + 1), Word("kbps"))}
    IN  IF hits = {} THEN None
        ELSE Some(c[SkipSpace(c, SkipSpace(c, MinOf(hits) + 1) + 1)])

\* header['speed'] = float(match.group(1)), for the text of a number
HeaderSpeed(c) == {FloatOf(k) : k \in HeaderSpeedText(c)}

_parse_header(c) ==
    [protocol_version |-> HeaderString(c, "LIN_protocol_version"),
     language_version |-> HeaderString(c, "LIN_language_version"),
     speed            |-> HeaderSpeed(c)]

\* ---- the section expressions ----
\* re.search(Keyword \s* \{ ([^}]+) \}): the tokens between the first
\* "Keyword {" and the next "}", at least one character
BraceSection(c, keyword) ==
    LET closeAfter(j) == {k \in (j + 1)..Len(c) : c[k] = Punct("}")}
        hits == {i \in 1..Len(c) :
                    /\ c[i] = Word(keyword)
                    /\ At(c, SkipSpace(c, i + 1), Punct("{"))
                    /\ closeAfter(SkipSpace(c, i + 1)) # {}
                    /\ MinOf(closeAfter(SkipSpace(c, i + 1))) > SkipSpace(c, i + 1) + 1}
    IN  IF hits = {} THEN None
        ELSE LET j == SkipSpace(c, MinOf(hits) + 1)
             IN  Some(SubSeq(c, j + 1, MinOf(closeAfter(j)) - 1))

\* the value of Body for the group of a search, the default when it found nothing
OnMatch(match, default, Body(_)) ==
    Bind({Body(content) : content \in match}, LAMBDA found :
        IF found = {} THEN default ELSE CHOOSE v \in found : TRUE)

\* [s.strip() for s in text.split(',') if s.strip()]
StrippedNames(c) ==
    Bind(Split(c, Punct(",")), LAMBDA parts :
        Bind(SelectSeq([i \in 1..Len(parts) |-> Strip(parts[i])], LAMBDA n : n # <<>>),
             LAMBDA named : [i \in 1..Len(named) |-> TextOf(named[i])]))

\* ---- _parse_nodes ----
\* the nodes of nodes_content
NodesIn(nc) ==
    LET \* Master: \s* (\w+)
        masters == {i \in 1..Len(nc) :
                      /\ nc[i] = Word("Master") /\ At(nc, i + 1, Punct(":"))
                      /\ IsWordAt(nc, SkipSpace(nc, i + 2))}
        master == Bind(masters, LAMBDA at :
                      IF at = {} THEN <<>>
                      ELSE <<[name |-> TokenText(nc[SkipSpace(nc, MinOf(at) + 2)]),
                              type |-> "master"]>>)
        \* Slaves: \s* ([^;]+) ;
        semiAfter(j) == {k \in j..Len(nc) : nc[k] = Punct(";")}
        slavesAt == {i \in 1..Len(nc) :
                      /\ nc[i] = Word("Slaves") /\ At(nc, i + 1, Punct(":"))
                      /\ Bind(SkipSpace(nc, i + 2), LAMBDA j :
                            semiAfter(j) # {} /\ MinOf(semiAfter(j)) > j)}
        slave_names ==
            Bind(slavesAt, LAMBDA at :
                IF at = {} THEN <<>>
                ELSE Bind(SkipSpace(nc, MinOf(at) + 2), LAMBDA j :
                        StrippedNames(SubSeq(nc, j, MinOf(semiAfter(j)) - 1))))
    IN  master \o Bind(slave_names, LAMBDA names :
                      [i \in 1..Len(names) |-> [name |-> names[i], type |-> "slave"]])

_parse_nodes(c) == OnMatch(BraceSection(c, "Nodes"), <<>>, NodesIn)

\* ---- _parse_signals ----
\* signal_pattern matched from position i:
\*   (\w+): \s* (\d+) \s* , \s* (\d+) \s* , \s* (\w+) (?: \s* , \s* ([^;]+))? ;
\* the empty set, or the match with the position of its last token
SignalMatch(sc, i, groups) ==
    LET size == SkipSpace(sc, i + 2)
        c1   == SkipSpace(sc, size + 1)
        init == SkipSpace(sc, c1 + 1)
        c2   == SkipSpace(sc, init + 1)
        pub  == SkipSpace(sc, c2 + 1)
        c3   == SkipSpace(sc, pub + 1)
        semis == {k \in (c3 + 1)..Len(sc) : sc[k] = Punct(";")}
        head == /\ IsWordAt(sc, i) /\ At(sc, i + 1, Punct(":"))
                /\ size <= Len(sc) /\ sc[size].t = "dec" /\ At(sc, c1, Punct(","))
                /\ init <= Len(sc) /\ sc[init].t = "dec" /\ At(sc, c2, Punct(","))
                /\ IsWordAt(sc, pub)
        signal_of(subscribers) ==
            [name |-> TokenText(sc[i]), length |-> IntOf(sc[size].d, 10, 0),
             initial_value |-> IntOf(sc[init].d, 10, 0),
             publisher |-> TokenText(sc[pub]), subscribers |-> subscribers]
    IN  IF ~head THEN {}
        ELSE IF At(sc, c3, Punct(",")) /\ semis # {} /\ MinOf(semis) > c3 + 1
             THEN {[last |-> MinOf(semis),
                    value |-> IF groups
                              THEN signal_of(StrippedNames(SubSeq(sc, c3 + 1,
                                                                  MinOf(semis) - 1)))
                              ELSE <<>>]}
        ELSE IF At(sc, pub + 1, Punct(";"))
             THEN {[last |-> pub + 1, value |-> IF groups THEN signal_of(<<>>) ELSE <<>>]}
        ELSE {}

RECURSIVE FindAll(_, _, _)
\* re.finditer: the matches of an expression from the left, none overlapping.
\* Match(c, i, groups) is the empty set, or the match that starts at i with the
\* position of its last token and, when groups are asked for, what its groups
\* are converted to.
FindAll(Match(_, _, _), c, from) ==
    Bind({i \in from..Len(c) : Match(c, i, FALSE) # {}}, LAMBDA hits :
        IF hits = {} THEN <<>>
        ELSE Bind(CHOOSE x \in Match(c, MinOf(hits), TRUE) : TRUE, LAMBDA m :
                <<m.value>> \o FindAll(Match, c, m.last + 1)))

_parse_signals(c) ==
    OnMatch(BraceSection(c, "Signals"), <<>>, LAMBDA sc : FindAll(SignalMatch, sc, 1))

\* ---- _parse_frames ----
\* re.search(Frames \s* \{ (.+?) \n\}): the tokens between the first
\* "Frames {" and the first "}" that starts a line, at least one character
FramesSection(c) ==
    LET lineClose(j) == {k \in (j + 2)..(Len(c) - 1) :
                            c[k] = LineBreak /\ c[k + 1] = Punct("}")}
        hits == {i \in 1..Len(c) :
                    /\ c[i] = Word("Frames")
                    /\ At(c, SkipSpace(c, i + 1), Punct("{"))
                    /\ lineClose(SkipSpace(c, i + 1)) # {}}
    IN  IF hits = {} THEN None
        ELSE LET j == SkipSpace(c, MinOf(hits) + 1)
             IN  Some(SubSeq(c, j + 1, MinOf(lineClose(j)) - 1))

\* the frame id literal: int(text, 16) of a 0x literal, int(text) otherwise
FrameIdOf(k) == IF k.t = "hex" THEN IntOf(k.d, 16, 0) ELSE IntOf(k.d, 10, 0)

\* re.match((\w+) \s* , \s* (\d+)) on one stripped line of a frame block;
\* \d+ takes the leading digits of the token after the comma
FrameSignalOf(line) ==
    LET comma == SkipSpace(line, 2)
        off   == SkipSpace(line, comma + 1)
    IN  IF /\ IsWordAt(line, 1) /\ At(line, comma, Punct(","))
           /\ off <= Len(line) /\ line[off].t \in {"dec", "hex", "real"}
        THEN <<[name |-> TokenText(line[1]),
                offset |-> CASE line[off].t = "dec" -> IntOf(line[off].d, 10, 0)
                             [] line[off].t = "hex" -> 0
                             [] OTHER -> IntOf(SubSeq(line[off].d, 1,
                                                      Len(line[off].d) - line[off].e), 10, 0)]>>
        ELSE <<>>

FrameSignals(signals_str) ==
    Bind(Split(signals_str, Punct(";")), LAMBDA parts :
        Bind(SelectSeq([i \in 1..Len(parts) |-> Strip(parts[i])], LAMBDA n : n # <<>>),
             LAMBDA signal_lines :
                Flatten([i \in 1..Len(signal_lines) |->
                           Bind(signal_lines[i], FrameSignalOf)])))

\* frame_pattern matched from position i:
\*   (\w+): \s* (0x[\da-fA-F]+|\d+) \s* , \s* (\w+) \s* , \s* (\d+) \s* \{ ([^}]+) \}
FrameMatch(fc, i, groups) ==
    LET id   == SkipSpace(fc, i + 2)
        c1   == SkipSpace(fc, id + 1)
        pub  == SkipSpace(fc, c1 + 1)
        c2   == SkipSpace(fc, pub + 1)
        len  == SkipSpace(fc, c2 + 1)
        open == SkipSpace(fc, len + 1)
        closes == {k \in (open + 1)..Len(fc) : fc[k] = Punct("}")}
    IN  IF /\ IsWordAt(fc, i) /\ At(fc, i + 1, Punct(":"))
           /\ id <= Len(fc) /\ fc[id].t \in {"hex", "dec"} /\ At(fc, c1, Punct(","))
           /\ IsWordAt(fc, pub) /\ At(fc, c2, Punct(","))
           /\ len <= Len(fc) /\ fc[len].t = "dec" /\ At(fc, open, Punct("{"))
           /\ closes # {} /\ MinOf(closes) > open + 1
        THEN {[last |-> MinOf(closes),
               value |-> IF ~groups THEN <<>>
                         ELSE [name |-> TokenText(fc[i]), frame_id |-> FrameIdOf(fc[id]),
                               publisher |-> TokenText(fc[pub]),
                               length |-> IntOf(fc[len].d, 10, 0),
                               signals |-> FrameSignals(SubSeq(fc, open + 1,
                                                               MinOf(closes) - 1))]]}
        ELSE {}

_parse_frames(c) ==
    OnMatch(FramesSection(c), <<>>, LAMBDA fc : FindAll(FrameMatch, fc, 1))

\* ---- _parse_schedule_tables ----
\* re.search(Schedule_tables \s* \{ (.+) \}): the tokens between the first
\* "Schedule_tables {" and the last "}" of the content, at least one character
ScheduleSection(c) ==
    LET closes == {k \in 1..Len(c) : c[k] = Punct("}")}
        hits == {i \in 1..Len(c) :
                    /\ c[i] = Word("Schedule_tables")
                    /\ At(c, SkipSpace(c, i + 1), Punct("{"))
                    /\ closes # {} /\ MaxOf(closes) > SkipSpace(c, i + 1) + 1}
    IN  IF hits = {} THEN None
        ELSE Some(SubSeq(c, SkipSpace(c, MinOf(hits) + 1) + 1, MaxOf(closes) - 1))

\* entry_pattern matched from position i: (\w+) \s+ delay \s+ ([\d.]+) \s* ms
EntryMatch(ec, i, groups) ==
    LET kw  == SkipSpace(ec, i + 1)
        num == SkipSpace(ec, kw + 1)
        ms  == SkipSpace(ec, num + 1)
    IN  IF /\ IsWordAt(ec, i) /\ kw > i + 1 /\ At(ec, kw, Word("delay"))
           /\ num > kw + 1 /\ num <= Len(ec) /\ IsNumTok(ec[num]) /\ At(ec, ms, Word("ms"))
        THEN {[last |-> ms,
               value |-> IF ~groups THEN <<>>
                         ELSE [frame_name |-> TokenText(ec[i]), delay |-> ec[num]]]}
        ELSE {}

\* table_pattern matched from position i: (\w+) \s* \{ ([^}]+) \}
TableMatch(tc, i, groups) ==
    LET open == SkipSpace(tc, i + 1)
        closes == {k \in (open + 1)..Len(tc) : tc[k] = Punct("}")}
    IN  IF /\ IsWordAt(tc, i) /\ At(tc, open, Punct("{"))
           /\ closes # {} /\ MinOf(closes) > open + 1
        THEN {[last |-> MinOf(closes),
               value |-> IF ~groups THEN <<>>
                         ELSE [name |-> TokenText(tc[i]),
                               entries_str |-> SubSeq(tc, open + 1, MinOf(closes) - 1)]]}
        ELSE {}

\* the entries of one table: frame name, float(delay) and position of every
\* match of the entry pattern
ScheduleEntries(entries_str) ==
    Bind(FindAll(EntryMatch, entries_str, 1), LAMBDA entry_matches :
        [p \in 1..Len(entry_matches) |->
           [frame_name |-> entry_matches[p].frame_name,
            delay |-> FloatOf(entry_matches[p].delay),
            position |-> p - 1]])

_parse_schedule_tables(c) ==
    OnMatch(ScheduleSection(c), <<>>, LAMBDA tc :
        Bind(FindAll(TableMatch, tc, 1), LAMBDA table_matches :
            [t \in 1..Len(table_matches) |->
               [name |-> table_matches[t].name,
                entries |-> ScheduleEntries(table_matches[t].entries_str)]]))

\* ---- load: the five parts, each located in the whole content ----
load(path, c) ==
    Bind(c, LAMBDA _content :
        [file_path |-> path,
         header |-> _parse_header(_content),
         nodes |-> _parse_nodes(_content),
         signals |-> _parse_signals(_content),
         frames |-> _parse_frames(_content),
         schedule_tables |-> _parse_schedule_tables(_content)])

\* ---- validate ----
\* the required keys are those load always sets and the two isinstance
\* checks always pass; what is left is the master check
\* a plausible slip: the master check left out
validate_NoMasterCheck(data) == "True"

validate(data) ==
    IF \E i \in 1..Len(data.nodes) : data.nodes[i].type = "master"
    THEN "True" ELSE "ValidationError"

\* ---- to_model ----
Float_19_2 == FDiv(FFromInt(192), FFromInt(10))

LINSignal(name, start_bit, length, initial_value, publisher, subscribers) ==
    [name |-> name, short_name |-> name, start_bit |-> start_bit, length |-> length,
     initial_value |-> initial_value, publisher |-> publisher, subscribers |-> subscribers]

\* Field(ge=0) of start_bit and Field(ge=1, le=64) of length
LINSignalValid(sig) == sig.start_bit >= 0 /\ sig.length >= 1 /\ sig.length <= MaxSignalLength

MaxLinFrameId == 63

\* Field(ge=0, le=0x3F) of frame_id and Field(ge=1, le=8) of length
LINFrameValid(frame) ==
    /\ frame.frame_id >= 0 /\ frame.frame_id <= MaxLinFrameId
    /\ frame.length >= 1 /\ frame.length <= MaxDlc

\* signals_by_name: the index in data.signals of the declaration a name is bound
\* to, the last one with that name
SignalByName(data, name) ==
    MaxOf({i \in 1..Len(data.signals) : data.signals[i].name = name})

\* the references of a frame block whose name is a key of signals_by_name
KnownRefs(data, frame_data) ==
    SelectSeq(frame_data.signals,
              LAMBDA r : \E i \in 1..Len(data.signals) : data.signals[i].name = r.name)

\* The LINSignal objects to_model makes, in the order it makes them: one per
\* declared signal, then one per known reference of each frame block.  An
\* object is named by its position in this sequence.
ToModelObjects(data) ==
    LET base == [i \in 1..Len(data.signals) |->
                    LINSignal(data.signals[i].name, 0, data.signals[i].length,
                              Some(data.signals[i].initial_value),
                              Some(data.signals[i].publisher),
                              data.signals[i].subscribers)]
        copies(frame_data) ==
            LET refs == KnownRefs(data, frame_data)
            IN  [k \in 1..Len(refs) |->
                    LET sig == base[SignalByName(data, refs[k].name)]
                    IN  LINSignal(sig.name, refs[k].offset, sig.length, sig.initial_value,
                                  sig.publisher, sig.subscribers)]
    IN  base \o Flatten([f \in 1..Len(data.frames) |-> copies(data.frames[f])])

\* the object that to_model appends to frame_signals for the k-th known
\* reference of the f-th frame block
FrameSignalObject(data, f, k) ==
    Len(data.signals)
    + SumSeq([g \in 1..(f - 1) |-> Len(KnownRefs(data, data.frames[g]))]) + k

to_model(data) ==
    LET protocol_version == IF data.header.protocol_version = None THEN "2.1"
                            ELSE CHOOSE x \in data.header.protocol_version : TRUE
        language_version == IF data.header.language_version = None THEN "2.1"
                            ELSE CHOOSE x \in data.header.language_version : TRUE
        speed == IF data.header.speed = None THEN Float_19_2
                 ELSE CHOOSE x \in data.header.speed : TRUE
        objects == ToModelObjects(data)
        frames == [f \in 1..Len(data.frames) |->
                     [name |-> data.frames[f].name, short_name |-> data.frames[f].name,
                      frame_id |-> data.frames[f].frame_id,
                      length |-> data.frames[f].length,
                      signals |-> [k \in 1..Len(KnownRefs(data, data.frames[f])) |->
                                     FrameSignalObject(data, f, k)],
                      publisher |-> Some(data.frames[f].publisher)]]
        LINNode(n) == [name |-> n.name, short_name |-> n.name, node_type |-> n.type,
                       protocol_version |-> protocol_version]
        masters == {i \in 1..Len(data.nodes) : data.nodes[i].type = "master"}
        slaves == SelectSeq(data.nodes, LAMBDA n : n.type # "master")
        schedule_tables ==
            [t \in 1..Len(data.schedule_tables) |->
               LET table_data == data.schedule_tables[t]
               IN  [name |-> table_data.name, short_name |-> table_data.name,
                    entries |-> [e \in 1..Len(table_data.entries) |->
                                   [name |-> table_data.name \o "_entry_"
                                               \o ToString(table_data.entries[e].position),
                                    frame_name |-> table_data.entries[e].frame_name,
                                    delay |-> table_data.entries[e].delay,
                                    position |-> table_data.entries[e].position]]]]
    IN  IF /\ \A i \in 1..Len(objects) : LINSignalValid(objects[i])
           /\ \A f \in 1..Len(frames) : LINFrameValid(frames[f])
        THEN [error |-> None,
              objects |-> objects,
              network |-> Some([name |-> data.file_path.stem,
                                protocol_version |-> protocol_version,
                                language_version |-> language_version,
                                speed |-> speed,
                                master_node |-> IF masters = {} THEN None
                                                ELSE Some(LINNode(data.nodes[MaxOf(masters)])),
                                slave_nodes |-> [i \in 1..Len(slaves) |-> LINNode(slaves[i])],
                                frames |-> frames,
                                schedule_tables |-> schedule_tables])]
        ELSE [error |-> Some("ConversionError"), objects |-> <<>>, network |-> None]

\* ---- load_and_convert (loader/base_loader.py) ----
load_and_convert(path, c) ==
    Bind(load(path, c), LAMBDA data :
        IF validate(data) = "ValidationError"
        THEN [error |-> Some("ValidationError"), objects |-> <<>>, network |-> None]
        ELSE to_model(data))

-----------------------------------------------------------------------------
(* LDF texts: the five sections of a cluster description, written in an    *)
(* order and a layout.  In the "indented" layout the statements of a block *)
(* and the closing brace of an inner block are indented as in the          *)
(* repository's sample; in the "flush" layout every line starts in the     *)
(* first column.                                                           *)
MaxMissing == 1

LdfSections == {"header", "Nodes", "Signals", "Frames", "Schedule_tables"}
CanonicalOrder == <<"header", "Nodes", "Signals", "Frames", "Schedule_tables">>

SignalDecls ==
    <<[name |-> "S1", size |-> 8, init |-> 0, publisher |-> "MasterEcu",
       subscribers |-> <<"Slave1">>],
      [name |-> "S2", size |-> 1, init |-> 0, publisher |-> "Slave1",
       subscribers |-> <<"MasterEcu">>]>>

\* two frame sections: S1 is referenced by both frames at different offsets,
\* S9 is not declared in the Signals section
FrameDecls ==
    { <<[name |-> "F1", id |-> 16, hex |-> TRUE, publisher |-> "MasterEcu", length |-> 2,
         refs |-> <<[name |-> "S1", offset |-> 0]>>],
        [name |-> "F2", id |-> 17, hex |-> FALSE, publisher |-> "Slave1", length |-> 4,
         refs |-> <<[name |-> "S2", offset |-> 0], [name |-> "S1", offset |-> 8]>>]>>,
      <<[name |-> "F1", id |-> 16, hex |-> FALSE, publisher |-> "Slave1", length |-> 1,
         refs |-> <<[name |-> "S9", offset |-> 0], [name |-> "S1", offset |-> 4]>>],
        [name |-> "F2", id |-> 60, hex |-> TRUE, publisher |-> "MasterEcu", length |-> 8,
         refs |-> <<[name |-> "S1", offset |-> 0]>>]>> }

ScheduleDecl ==
    <<[name |-> "T1", entries |-> <<[frame |-> "F1", delay |-> DecToken(10)],
                                    [frame |-> "F2", delay |-> RealToken(25, 1)]>>]>>

\* the sections of an order, in the canonical order
Canonical(order) ==
    SelectSeq(CanonicalOrder, LAMBDA section : \E i \in 1..Len(order) : order[i] = section)

\* The texts: the sample (all sections, indented, the frame section with the
\* 0x id first) in every order of its sections, and every layout and frame
\* section with the sections in the canonical order, at most MaxMissing of
\* them missing.
LdfSources ==
    LET SectionOrders ==
            UNION { {o \in [1..n -> LdfSections] : \A i, j \in 1..n : o[i] = o[j] => i = j} :
                      n \in (Cardinality(LdfSections) - MaxMissing)..Cardinality(LdfSections) }
        SampleFrames == CHOOSE frames \in FrameDecls : frames[1].hex
    IN  {src \in [order : SectionOrders, layout : {"indented", "flush"}, frames : FrameDecls] :
            \/ src.order = Canonical(src.order)
            \/ /\ Len(src.order) = Cardinality(LdfSections)
               /\ src.layout = "indented" /\ src.frames = SampleFrames}

LdfPath == [stem |-> "cluster", suffix |-> ".ldf"]

\* the content of the file written from a source
LdfText(src) ==
    LET Indent(depth) ==
            IF src.layout = "indented" THEN [i \in 1..depth |-> Blank] ELSE <<>>
        Line(depth, tokens) == Indent(depth) \o tokens \o <<LineBreak>>
        \* ", name" for every name
        CommaNames(names) ==
            Flatten([i \in 1..Len(names) |-> <<Punct(","), Blank, Word(names[i])>>])
        HeaderText ==
            <<Word("LIN_description_file"), Punct(";"), LineBreak,
              Word("LIN_protocol_version"), Blank, Punct("="), Blank, Quoted("2.0"),
              Punct(";"), LineBreak,
              Word("LIN_language_version"), Blank, Punct("="), Blank, Quoted("2.2"),
              Punct(";"), LineBreak,
              Word("LIN_speed"), Blank, Punct("="), Blank, RealToken(96, 1), Blank,
              Word("kbps"), Punct(";"), LineBreak>>
        NodesText ==
            <<Word("Nodes"), Blank, Punct("{"), LineBreak>>
            \o Line(1, <<Word("Master"), Punct(":"), Blank, Word("MasterEcu"), Punct(","),
                         Blank, DecToken(5), Blank, Word("ms"), Punct(","), Blank,
                         RealToken(1, 1), Blank, Word("ms"), Blank, Punct(";")>>)
            \o Line(1, <<Word("Slaves"), Punct(":"), Blank, Word("Slave1"), Blank,
                         Punct(";")>>)
            \o <<Punct("}"), LineBreak>>
        SignalsText ==
            <<Word("Signals"), Blank, Punct("{"), LineBreak>>
            \o Flatten([i \in 1..Len(SignalDecls) |->
                  Line(1, <<Word(SignalDecls[i].name), Punct(":"), Blank,
                            DecToken(SignalDecls[i].size), Punct(","), Blank,
                            DecToken(SignalDecls[i].init), Punct(","), Blank,
                            Word(SignalDecls[i].publisher)>>
                          \o CommaNames(SignalDecls[i].subscribers)
                          \o <<Blank, Punct(";")>>)])
            \o <<Punct("}"), LineBreak>>
        FramesText ==
            <<Word("Frames"), Blank, Punct("{"), LineBreak>>
            \o Flatten([f \in 1..Len(src.frames) |->
                  Line(1, <<Word(src.frames[f].name), Punct(":"), Blank,
                            IF src.frames[f].hex THEN HexToken(src.frames[f].id)
                            ELSE DecToken(src.frames[f].id),
                            Punct(","), Blank, Word(src.frames[f].publisher), Punct(","),
                            Blank, DecToken(src.frames[f].length), Blank, Punct("{")>>)
                  \o Flatten([k \in 1..Len(src.frames[f].refs) |->
                        Line(2, <<Word(src.frames[f].refs[k].name), Punct(","), Blank,
                                  DecToken(src.frames[f].refs[k].offset), Blank,
                                  Punct(";")>>)])
                  \o Line(1, <<Punct("}")>>)])
            \o <<Punct("}"), LineBreak>>
        ScheduleText ==
            <<Word("Schedule_tables"), Blank, Punct("{"), LineBreak>>
            \o Flatten([t \in 1..Len(ScheduleDecl) |->
                  Line(1, <<Word(ScheduleDecl[t].name), Blank, Punct("{")>>)
                  \o Flatten([e \in 1..Len(ScheduleDecl[t].entries) |->
                        Line(2, <<Word(ScheduleDecl[t].entries[e].frame), Blank,
                                  Word("delay"), Blank, ScheduleDecl[t].entries[e].delay,
                                  Blank, Word("ms"), Blank, Punct(";")>>)])
                  \o Line(1, <<Punct("}")>>)])
            \o <<Punct("}"), LineBreak>>
        SectionText(section) ==
            CASE section = "header" -> HeaderText
              [] section = "Nodes" -> NodesText
              [] section = "Signals" -> SignalsText
              [] section = "Frames" -> FramesText
              [] section = "Schedule_tables" -> ScheduleText
    IN  Flatten([i \in 1..Len(src.order) |-> SectionText(src.order[i])])

\* ---- the loader calls ----
AssignedStartBits == {3}

\* loader.load(path)
Load(src) ==
    /\ loader = <<>>
    /\ \E data \in {load(LdfPath, LdfText(src))} :
         loader' = [called |-> "load", source |-> src, data |-> Some(data),
                    error |-> None, objects |-> <<>>, network |-> None, changed |-> None]

\* loader.load_and_convert(path)
LoadAndConvert(src) ==
    /\ loader = <<>>
    /\ \E model \in {load_and_convert(LdfPath, LdfText(src))} :
           loader' = [called |-> "load_and_convert", source |-> src, data |-> None,
                      error |-> model.error, objects |-> model.objects,
                      network |-> model.network, changed |-> None]

\* network.frames[f].signals[k].start_bit = v on the returned network: the
\* assignment changes the one object the list entry refers to
SetStartBit(f, k, v) ==
    /\ loader # <<>> /\ loader.network # None /\ loader.changed = None
    /\ \E network \in loader.network :
           /\ f \in 1..Len(network.frames)
           /\ k \in 1..Len(network.frames[f].signals)
           /\ v >= 0
           /\ loader' = [loader EXCEPT
                           !.objects[network.frames[f].signals[k]].start_bit = v,
                           !.changed = Some([frame |-> f, position |-> k])]

NextLdf ==
    \/ \E src \in LdfSources : Load(src)
    \/ \E src \in LdfSources : LoadAndConvert(src)
    \/ \E f \in 1..Cardinality(LdfSections), k \in 1..Cardinality(LdfSections), v \in AssignedStartBits :
          SetStartBit(f, k, v)

SpecLdf ==
    /\ Init
    /\ [][NextLdf /\ UNCHANGED <<can_networks, lin_networks, source_files, called, held,
                                 errors, result, project, call_args, signal,
                                 signal_args, signals, message, message_error,
                                 codec>>]_vars

-----------------------------------------------------------------------------
(* One LDFLoader instance used for several files: the instance keeps the   *)
(* text of the last file in self._content                                  *)

\* Number of load_and_convert calls in one run of a program.
MaxParses == 3

\* the files parsed again and again: the sample in both layouts, and the
\* indented sample with its Frames section last
ReuseSources ==
    {src \in LdfSources :
        /\ src.frames[1].hex
        /\ \/ src.order = CanonicalOrder
           \/ src.order = <<"header", "Nodes", "Signals", "Schedule_tables", "Frames">>}

\* a plausible slip: the text read is added to what the instance holds
ReadContent_Appended(_content, text) == _content \o text

\* self._content = f.read()
ReadContent(_content, text) == text

\* LDFLoader(): a new instance, which replaces the one in use
NewLoader ==
    /\ \/ loader = <<>>
       \/ loader # <<>> /\ loader.called = "reuse" /\ loader._content # <<>>
    /\ loader' = [called |-> "reuse", _content |-> <<>>,
                  instance |-> IF loader = <<>> THEN 1 ELSE loader.instance + 1,
                  results |-> IF loader = <<>> THEN <<>> ELSE loader.results]

\* loader.load_and_convert(path) on the instance in use: load reads the file
\* into self._content and the five parts are located in self._content
Parse(src) ==
    /\ loader # <<>> /\ loader.called = "reuse"
    /\ Len(loader.results) < MaxParses
    /\ \E c \in {ReadContent(loader._content, LdfText(src))} :
       \E model \in {load_and_convert(LdfPath, c)} :
         loader' = [loader EXCEPT
                      !._content = c,
                      !.results = Append(@, [source |-> src, instance |-> loader.instance,
                                             model |-> model])]

NextReuse ==
    \/ NewLoader
    \/ \E src \in ReuseSources : Parse(src)

SpecReuse ==
    /\ Init
    /\ [][NextReuse /\ UNCHANGED <<can_networks, lin_networks, source_files, called, held,
                                   errors, result, project, call_args, signal,
                                   signal_args, signals, message, message_error,
                                   codec>>]_vars

-----------------------------------------------------------------------------
(* LDFLoader.load on the files of a file system.  A file is described by   *)
(* its path, by what is at the path, and by what reading it gives.         *)

FileSuffixes == {".ldf", ".LDF", ".txt"}

\* str.lower() on a suffix
Lower(suffix) == IF suffix = ".LDF" THEN ".ldf" ELSE suffix

\* an exception object: its class and its __cause__
Raised(type, cause) == [type |-> type, cause |-> cause]

\* the text of a source with the number of its LIN_speed statement, or the
\* delay of its last schedule entry, written with two points
Dotted(c, where) ==
    [i \in 1..Len(c) |->
        IF \/ where = "speed" /\ c[i] = RealToken(96, 1)
           \/ where = "delay" /\ c[i] = RealToken(25, 1)
        THEN DotsToken ELSE c[i]]

FileTexts ==
    {[source |-> src, dotted |-> where] :
        src \in {src \in ReuseSources : src.order = CanonicalOrder},
        where \in {"none", "speed", "delay"}}

\* what a path can name: nothing, a directory, or a file with its mode, its
\* encoding and its text
LdfFiles ==
    {file \in [path : [stem : {"cluster"}, suffix : FileSuffixes],
               there : {"missing", "directory", "file"},
               readable : BOOLEAN, utf8 : BOOLEAN, text : FileTexts] :
        /\ file.there # "file" =>
              /\ file.readable /\ file.utf8
              /\ file.text = CHOOSE t \in FileTexts : TRUE
        /\ (~file.readable \/ ~file.utf8) =>
              /\ file.readable \/ file.utf8
              /\ file.text = CHOOSE t \in FileTexts : TRUE}

\* the characters f.read() returns
FileContent(file) == Dotted(LdfText(file.text.source), file.text.dotted)

\* BaseLoader._validate_file_exists: the exception raised, if any
_validate_file_exists(file) ==
    IF file.there = "missing" THEN Some(Raised("FileNotFoundError", None))
    ELSE IF file.there # "file" THEN Some(Raised("FileNotFoundError", None))
    ELSE None

\* BaseLoader._validate_file_extension: the exception raised, if any
_validate_file_extension(file, extensions) ==
    IF Lower(file.path.suffix) \notin {Lower(ext) : ext \in extensions}
    THEN Some(Raised("UnsupportedFormatError", None))
    ELSE None

\* the texts the schedule part passes to float(): group 2 of every entry
DelayTexts(c) ==
    OnMatch(ScheduleSection(c), {}, LAMBDA tc :
        Bind(FindAll(TableMatch, tc, 1), LAMBDA table_matches :
            UNION {Bind(FindAll(EntryMatch, table_matches[t].entries_str, 1),
                        LAMBDA entry_matches :
                            {entry_matches[p].delay : p \in 1..Len(entry_matches)}) :
                   t \in 1..Len(table_matches)}))

\* the exception raised inside the try block of load, if any: by open(), by
\* f.read(), or by float() on a text that is not a number
RaisedInTry(file) ==
    IF ~file.readable THEN Some("PermissionError")
    ELSE IF ~file.utf8 THEN Some("UnicodeDecodeError")
    ELSE IF \E k \in HeaderSpeedText(FileContent(file)) \cup DelayTexts(FileContent(file)) :
                k.t = "dots"
         THEN Some("ValueError")
         ELSE None

\* LDFLoader.load(file_path): how the call ends
load_file(file) ==
    IF _validate_file_exists(file) # None
    THEN [raised |-> _validate_file_exists(file), data |-> None]
    ELSE IF _validate_file_extension(file, {".ldf", ".LDF"}) # None
    THEN [raised |-> _validate_file_extension(file, {".ldf", ".LDF"}), data |-> None]
    ELSE Bind(RaisedInTry(file), LAMBDA e :
            IF e # None
            THEN [raised |-> Some(Raised("ParserError", e)), data |-> None]
            ELSE [raised |-> None, data |-> Some(load(file.path, FileContent(file)))])

\* the file system: the path comes to name something else
WriteFile(file) ==
    /\ \/ loader = <<>>
       \/ loader # <<>> /\ loader.called = "file" /\ loader.file # file
    /\ loader' = [called |-> "file", file |-> file,
                  loads |-> IF loader = <<>> THEN <<>> ELSE loader.loads]

\* loader.load(path) on what the path names now
LoadFile ==
    /\ loader # <<>> /\ loader.called = "file"
    /\ \E outcome \in {load_file(loader.file)} :
         loader' = [loader EXCEPT
                      !.loads = <<[file |-> loader.file, raised |-> outcome.raised,
                                   data |-> outcome.data]>>]

NextFile ==
    \/ \E file \in LdfFiles : WriteFile(file)
    \/ LoadFile

SpecFile ==
    /\ Init
    /\ [][NextFile /\ UNCHANGED <<can_networks, lin_networks, source_files, called, held,
                                  errors, result, project, call_args, signal,
                                  signal_args, signals, message, message_error,
                                  codec>>]_vars

-----------------------------------------------------------------------------
(* ECUCService.load_dbc / load_ldf.  A file is described by what the       *)
(* session's loader makes of it: load_and_convert returns a network named  *)
(* after the file stem, or raises one of the loader's exceptions.          *)

\* Number of entries the session's source_files may hold.
MaxLoads == 2

\* the network_name argument: not given, empty, given
NetworkNameArgs == {None, Some(""), Some("X")}

ServiceFiles ==
    {[kind |-> "dbc", path |-> [stem |-> "A", suffix |-> ".dbc"], gives |-> g] :
        g \in {"model", "FileNotFoundError", "ParserError"}}
    \cup {[kind |-> "ldf", path |-> [stem |-> "A", suffix |-> ".ldf"], gives |-> g] :
        g \in {"model", "duplicates", "ValidationError", "ConversionError",
               "LoaderException"}}
    \cup {[kind |-> "ldf", path |-> [stem |-> "A", suffix |-> ".txt"],
           gives |-> "UnsupportedFormatError"]}

\* self._dbc_loader.load_and_convert(file_path): DBCLoader.to_model names the
\* database after the file stem and sets no baud rate
DbcLoaderOutcome(file) ==
    IF file.gives = "model"
    THEN [raised |-> None,
          network |-> Some([NewCANDatabase(file.path.stem, None) EXCEPT
                              !.messages = <<NewCANMessage("M1", 256, 8, Some("ECU"),
                                                <<NewSignal("S1", 0, 8)>>)>>])]
    ELSE [raised |-> Some(file.gives), network |-> None]

\* self._ldf_loader.load_and_convert(file_path): LDFLoader.to_model names the
\* network after the file stem; "duplicates" is a text with one frame id
\* used twice
LdfLoaderOutcome(file) ==
    IF file.gives \in {"model", "duplicates"}
    THEN [raised |-> None,
          network |-> Some([NewLINNetwork(file.path.stem, Some("Master")) EXCEPT
                              !.frames =
                                 <<NewLINFrame("F1", 16, 2, <<NewSignal("L1", 0, 8)>>)>>
                                 \o (IF file.gives = "duplicates"
                                     THEN <<NewLINFrame("F3", 16, 1, <<NewSignal("L1", 0, 8)>>)>>
                                     ELSE <<>>)])]
    ELSE [raised |-> Some(file.gives), network |-> None]

\* str(Path(file_path).resolve()) of a relative path
Resolve(path) == [dir |-> "/work", stem |-> path.stem, suffix |-> path.suffix]

\* object.field = value on a model object (BaseElement: validate_assignment):
\* a name that is not a field of the class is refused, `name` needs one
\* character at least
SetAttr(object, field, value) ==
    IF field \notin DOMAIN object
    THEN [raised |-> Some("ValueError"), object |-> object]
    ELSE IF field = "name" /\ value = ""
    THEN [raised |-> Some("ValidationError"), object |-> object]
    ELSE [raised |-> None, object |-> [object EXCEPT ![field] = value]]

\* `if network_name: ... elif not network.name: ...` of load_dbc / load_ldf
AssignName(network, network_name, path) ==
    IF network_name # None /\ network_name # Some("")
    THEN Bind(SetAttr(network, "name", CHOOSE n \in network_name : TRUE), LAMBDA named :
            IF named.raised # None THEN named
            ELSE SetAttr(named.object, "short_name", CHOOSE n \in network_name : TRUE))
    ELSE IF network.name = ""
    THEN Bind(SetAttr(network, "name", path.stem), LAMBDA named :
            IF named.raised # None THEN named
            ELSE SetAttr(named.object, "short_name", path.stem))
    ELSE [raised |-> None, object |-> network]

\* a plausible slip: the source file noted before the network is named
Register_SourceFirst(networks, files, loaded, path, network_name) ==
    IF loaded.raised # None
    THEN [raised |-> loaded.raised, networks |-> networks, source_files |-> files]
    ELSE Bind(AssignName(CHOOSE n \in loaded.network : TRUE, network_name, path),
              LAMBDA named :
                IF named.raised # None
                THEN [raised |-> named.raised, networks |-> networks,
                      source_files |-> Append(files, Resolve(path))]
                ELSE [raised |-> None,
                      networks |-> DictSet(networks, named.object.name, named.object),
                      source_files |-> Append(files, Resolve(path))])

\* the try block of load_dbc / load_ldf after the loader call: the exception
\* raised in it, if any, and the network map and source_files it leaves
Register(networks, files, loaded, path, network_name) ==
    IF loaded.raised # None
    THEN [raised |-> loaded.raised, networks |-> networks, source_files |-> files]
    ELSE Bind(AssignName(CHOOSE n \in loaded.network : TRUE, network_name, path),
              LAMBDA named :
                IF named.raised # None
                THEN [raised |-> named.raised, networks |-> networks,
                      source_files |-> files]
                ELSE [raised |-> None,
                      networks |-> DictSet(networks, named.object.name, named.object),
                      source_files |-> Append(files, Resolve(path))])

\* ECUCService.load_dbc(file_path, network_name): every exception of the try
\* block is raised as ECUCServiceException, its cause kept in `errors`
LoadDbc(file, network_name) ==
    /\ Len(source_files) < MaxLoads
    /\ \E done \in {Register(can_networks, source_files, DbcLoaderOutcome(file),
                             file.path, network_name)} :
         /\ can_networks' = done.networks
         /\ source_files' = done.source_files
         /\ result' = IF done.raised # None THEN "ECUCServiceException" ELSE "CANDatabase"
         /\ errors' = [i \in 1..Cardinality(done.raised) |-> CHOOSE e \in done.raised : TRUE]
    /\ called' = "load_dbc"
    /\ call_args' = <<file, network_name>>
    /\ project' = None
    /\ UNCHANGED <<lin_networks, held>>

\* ECUCService.load_ldf(file_path, network_name)
LoadLdf(file, network_name) ==
    /\ Len(source_files) < MaxLoads
    /\ \E done \in {Register(lin_networks, source_files, LdfLoaderOutcome(file),
                             file.path, network_name)} :
         /\ lin_networks' = done.networks
         /\ source_files' = done.source_files
         /\ result' = IF done.raised # None THEN "ECUCServiceException" ELSE "LINNetwork"
         /\ errors' = [i \in 1..Cardinality(done.raised) |-> CHOOSE e \in done.raised : TRUE]
    /\ called' = "load_ldf"
    /\ call_args' = <<file, network_name>>
    /\ project' = None
    /\ UNCHANGED <<can_networks, held>>

\* a plausible slip: the project given the session's list itself
copy_Same(list) == [items |-> list, same |-> TRUE]

\* list.copy(): a new list object with the items of the list
copy(list) == [items |-> list, same |-> FALSE]

\* project = service.generate_ecuc_project(...): the caller keeps the project
\* returned, or uses it and drops it; source_files=self.source_files.copy()
\* is the list object the project's source_files refers to
Generate(project_name, ecu_instance, modules, keep) ==
    /\ GenerateEcucProject(project_name, ecu_instance, modules)
    /\ held' = IF keep /\ project' # None
               THEN {[project |-> p, source_files |-> copy(source_files)] : p \in project'}
               ELSE held

\* the project the caller keeps, as the caller reads it now: a list object
\* shared with the session shows the session's appends and clears
HeldProject ==
    {[h.project EXCEPT !.source_files = IF h.source_files.same THEN source_files
                                        ELSE h.source_files.items] : h \in held}

NextService ==
    \/ \E file \in ServiceFiles, network_name \in NetworkNameArgs :
          /\ file.kind = "dbc"
          /\ LoadDbc(file, network_name)
    \/ \E file \in ServiceFiles, network_name \in NetworkNameArgs :
          /\ file.kind = "ldf"
          /\ LoadLdf(file, network_name)
    \/ ValidateData /\ UNCHANGED held
    \/ \E pn \in ProjectNames, ei \in EcuInstances, m \in ModuleRequests, keep \in BOOLEAN :
          Generate(pn, ei, m, keep)
    \/ Clear /\ UNCHANGED held

SpecService ==
    /\ Init
    /\ [][NextService /\ UNCHANGED <<signal, signal_args, signals, message,
                                     message_error, codec, loader>>]_vars

-----------------------------------------------------------------------------
(* BaseLoader.load_and_convert as a template over the three steps of a     *)
(* subclass.  A step is described by how it ends: it returns a value or    *)
(* raises an exception.                                                    *)

LoaderExceptions ==
    {"LoaderException", "FileNotFoundError", "ParserError", "ValidationError",
     "ConversionError", "UnsupportedFormatError"}

\* exceptions that are not loader exceptions
OtherExceptions == {"KeyError", "TypeError"}

Returns(v) == [returns |-> Some(v), raises |-> None]
Raises(e) == [returns |-> None, raises |-> Some(e)]

\* how the steps of a subclass can end; load may return something that is
\* not sized ("None"), validate may return False instead of raising
StepOutcomes ==
    [load : {Returns("data"), Returns("None")}
              \cup {Raises(e) : e \in LoaderExceptions \cup OtherExceptions},
     validate : {Returns("True"), Returns("False")}
              \cup {Raises(e) : e \in LoaderExceptions \cup OtherExceptions},
     to_model : {Returns("model")}
              \cup {Raises(e) : e \in LoaderExceptions \cup OtherExceptions}]

\* a plausible slip: every exception wrapped, the loader's own too
Handler_WrapsAll(e) == Raised("LoaderException", Some(e))

\* the except clauses of load_and_convert: the exception that leaves the call
Handler(e) ==
    IF e \in LoaderExceptions THEN Raised(e, None)
    ELSE Raised("LoaderException", Some(e))

\* the try block of load_and_convert: the steps called, in the order of
\* their calls, and how the call ends
TemplateRun(steps) ==
    LET Ended(calls, e) ==
            [calls |-> calls, returned |-> None, raised |-> Some(Handler(e))]
    IN  IF steps.load.raises # None
        THEN Ended(<<"load">>, CHOOSE e \in steps.load.raises : TRUE)
        ELSE IF steps.load.returns = Some("None")
        THEN Ended(<<"load">>, "TypeError")
        ELSE IF steps.validate.raises # None
        THEN Ended(<<"load", "validate">>, CHOOSE e \in steps.validate.raises : TRUE)
        ELSE IF steps.to_model.raises # None
        THEN Ended(<<"load", "validate", "to_model">>,
                   CHOOSE e \in steps.to_model.raises : TRUE)
        ELSE [calls |-> <<"load", "validate", "to_model">>,
              returned |-> steps.to_model.returns, raised |-> None]

\* loader.load_and_convert(file_path) on a loader whose steps end as given
RunTemplate(steps) ==
    /\ \/ loader = <<>>
       \/ loader # <<>> /\ loader.called = "template" /\ loader.steps # steps
    /\ \E run \in {TemplateRun(steps)} :
         loader' = [called |-> "template", steps |-> steps, calls |-> run.calls,
                    returned |-> run.returned, raised |-> run.raised]

NextTemplate == \E steps \in StepOutcomes : RunTemplate(steps)

SpecTemplate ==
    /\ Init
    /\ [][NextTemplate /\ UNCHANGED <<can_networks, lin_networks, source_files, called, held,
                                      errors, result, project, call_args, signal,
                                      signal_args, signals, message, message_error,
                                      codec>>]_vars

-----------------------------------------------------------------------------
(* CachedLoader: load_and_convert with a cache over the template *)

\* Number of calls made on one CachedLoader.
MaxCalls == 3

\* paths given to the loader: the first two name the same file
CachedPaths == {"a.ldf", "./a.ldf", "b.ldf"}

\* str(Path(file_path).resolve())
ResolvedPath(file_path) == IF file_path = "b.ldf" THEN "/work/b.ldf" ELSE "/work/a.ldf"

\* what the file at the path is at the time of a call: well-formed or not
FileSteps ==
    {[load |-> Returns("data"), validate |-> Returns("True"), to_model |-> Returns("model")],
     [load |-> Raises("ParserError"), validate |-> Returns("True"),
      to_model |-> Returns("model")]}

\* CachedLoader.__init__: self._cache = {}; `log` is the calls made so far
CachedLoaderNow ==
    IF loader = <<>> THEN [called |-> "cached", _cache |-> <<>>, log |-> <<>>] ELSE loader

\* a plausible slip: the cache keyed by the path as given
CacheKey_AsGiven(file_path) == file_path

\* resolved_path, the cache key
CacheKey(file_path) == ResolvedPath(file_path)

\* CachedLoader.load_and_convert(file_path, use_cache): the model of a parse
\* is a new object, named here by the file and the number of the call
CachedLoadAndConvert(file_path, use_cache, steps) ==
    /\ CachedLoaderNow.called = "cached"
    /\ Len(CachedLoaderNow.log) < MaxCalls
    /\ LET self == CachedLoaderNow
           resolved_path == CacheKey(file_path)
           entry(calls, returned, raised) ==
               [call |-> "load_and_convert", file_path |-> file_path,
                use_cache |-> use_cache, steps |-> steps, calls |-> calls,
                returned |-> returned, raised |-> raised]
       IN  IF use_cache /\ resolved_path \in Keys(self._cache)
           THEN loader' = [self EXCEPT !.log = Append(@,
                              entry(<<>>,
                                    Some(self._cache[DictGet(self._cache, resolved_path)].value),
                                    None))]
           ELSE \E run \in {TemplateRun(steps)} :
                \E model \in {[file |-> ResolvedPath(file_path), parse |-> Len(self.log) + 1]} :
                  IF run.raised # None
                  THEN loader' = [self EXCEPT !.log = Append(@,
                                     entry(run.calls, None, run.raised))]
                  ELSE loader' = [self EXCEPT
                                    !._cache = IF use_cache
                                               THEN DictSet(@, resolved_path, model) ELSE @,
                                    !.log = Append(@, entry(run.calls, Some(model), None))]

\* CachedLoader.clear_cache
ClearCache ==
    /\ CachedLoaderNow.called = "cached"
    /\ Len(CachedLoaderNow.log) < MaxCalls
    /\ loader' = [CachedLoaderNow EXCEPT
                    !._cache = <<>>,
                    !.log = Append(@, [call |-> "clear_cache"])]

NextCache ==
    \/ \E file_path \in CachedPaths, use_cache \in BOOLEAN, steps \in FileSteps :
          CachedLoadAndConvert(file_path, use_cache, steps)
    \/ ClearCache

SpecCache ==
    /\ Init
    /\ [][NextCache /\ UNCHANGED <<can_networks, lin_networks, source_files, called, held,
                                   errors, result, project, call_args, signal,
                                   signal_args, signals, message, message_error,
                                   codec>>]_vars

-----------------------------------------------------------------------------
\* the references of a declared frame to signals declared in the Signals
\* section of the text, in the order of the frame block
DeclaredRefs(src, frame) ==
    SelectSeq(frame.refs,
              LAMBDA r : /\ \E i \in 1..Len(src.order) : src.order[i] = "Signals"
                         /\ \E i \in 1..Len(SignalDecls) : SignalDecls[i].name = r.name)

DeclaredSize(name) ==
    SignalDecls[CHOOSE i \in 1..Len(SignalDecls) : SignalDecls[i].name = name].size

\* the frames of the returned network are the declared frames, in order, and
\* every signal list entry is the declared signal at the offset of its frame
\* block; an entry that was assigned a start bit afterwards holds that start
\* bit, every other entry still holds its own
FramesAsDeclared ==
    /\ loader.error = None /\ loader.network # None
    /\ LET src == loader.source
           network == CHOOSE n \in loader.network : TRUE
       IN  /\ Len(network.frames) = Len(src.frames)
           /\ \A f \in 1..Len(src.frames) :
                LET frame == network.frames[f]
                    refs == DeclaredRefs(src, src.frames[f])
                IN  /\ frame.name = src.frames[f].name
                    /\ frame.frame_id = src.frames[f].id
                    /\ frame.publisher = Some(src.frames[f].publisher)
                    /\ frame.length = src.frames[f].length
                    /\ Len(frame.signals) = Len(refs)
                    /\ \A k \in 1..Len(refs) :
                         LET sig == loader.objects[frame.signals[k]]
                         IN  /\ sig.name = refs[k].name
                             /\ sig.length = DeclaredSize(refs[k].name)
                             /\ IF loader.changed = Some([frame |-> f, position |-> k])
                                THEN sig.start_bit \in AssignedStartBits
                                ELSE sig.start_bit = refs[k].offset

\* a text with all five sections was loaded and converted
FullTextConverted ==
    /\ loader # <<>> /\ loader.called = "load_and_convert"
    /\ Len(loader.source.order) = Cardinality(LdfSections)

\* C18: for a well-formed LDF text (all five sections, in any order and any
\* layout) the network returned by load_and_convert has the declared frames in
\* source order with their name, id (0x10 = 16), publisher and byte length; each
\* frame holds, in source order, one signal per referenced signal declared in
\* the Signals section, with its declared size and the offset of that frame
\* block as start_bit; and assigning a start bit to one frame's copy of a
\* signal leaves every other copy as it was.
C18_FramesAsDeclared == FullTextConverted => FramesAsDeclared

\* a text in the flush layout was converted to a network
C18_Scenario ==
    FullTextConverted /\ loader.source.layout = "flush" /\ loader.network # None

\* C18, for the texts whose inner blocks are indented: the frames and their
\* signals are as declared, and the copies of a signal are separate objects
C18_IndentedAsDeclared ==
    (FullTextConverted /\ loader.source.layout = "indented") => FramesAsDeclared

\* S1 is referenced by both frames; the start bit of one of its copies was
\* assigned after the conversion of an indented text
C18_IndentedScenario ==
    /\ FullTextConverted /\ loader.source.layout = "indented"
    /\ loader.changed # None
    /\ \E f \in 1..2 : loader.source.frames[f].hex /\ loader.source.frames[f].id = 16

-----------------------------------------------------------------------------
\* the text of a source with its sections put in the canonical order
Reordered(src) == [src EXCEPT !.order = Canonical(src.order)]

\* what load returns for the same sections in the canonical order
LoadedReordered == load(LdfPath, LdfText(Reordered(loader.source)))

Loaded == loader # <<>> /\ loader.called = "load"

\* C19: what LDFLoader.load returns does not depend on the order of the
\* sections: for every order of the header, Nodes, Signals, Frames and
\* Schedule_tables sections of a text, the header values, nodes, signals,
\* frames and schedule tables are those of the text in the canonical order.
C19_OrderIndependent == Loaded => loader.data = Some(LoadedReordered)

\* a text whose Schedule_tables section is followed by another section was loaded
C19_Scenario ==
    /\ Loaded
    /\ Len(loader.source.order) = Cardinality(LdfSections)
    /\ loader.source.order[Len(loader.source.order)] # "Schedule_tables"

\* C19, in part: the header values, nodes, signals and frames are the same in
\* every order of the sections, and so are the schedule tables when no section
\* follows the Schedule_tables section
C19_ScheduleLast ==
    Loaded =>
      LET data == CHOOSE d \in loader.data : TRUE
          order == loader.source.order
      IN  /\ data.header = LoadedReordered.header
          /\ data.nodes = LoadedReordered.nodes
          /\ data.signals = LoadedReordered.signals
          /\ data.frames = LoadedReordered.frames
          /\ order[Len(order)] = "Schedule_tables"
               => data.schedule_tables = LoadedReordered.schedule_tables

-----------------------------------------------------------------------------
\* a text that lacks the section was loaded and converted
ConvertedWithout(section) ==
    /\ loader # <<>> /\ loader.called = "load_and_convert"
    /\ \A i \in 1..Len(loader.source.order) : loader.source.order[i] # section

\* the call returned a network whose part for the section is empty or default
PartEmpty(section) ==
    /\ loader.error = None /\ loader.network # None
    /\ LET network == CHOOSE n \in loader.network : TRUE
       IN  CASE section = "header" ->
                  /\ network.protocol_version = "2.1"
                  /\ network.language_version = "2.1"
                  /\ network.speed = Float_19_2
             [] section = "Nodes" ->
                  network.master_node = None /\ network.slave_nodes = <<>>
             [] section = "Signals" ->
                  \A f \in 1..Len(network.frames) : network.frames[f].signals = <<>>
             [] section = "Frames" -> network.frames = <<>>
             [] section = "Schedule_tables" -> network.schedule_tables = <<>>

\* C20: load_and_convert tolerates a missing section: for each of the five
\* sections, on a text that lacks it the call raises no error and returns a
\* network whose corresponding part is empty or default.
C20_MissingTolerated ==
    \A section \in LdfSections : ConvertedWithout(section) => PartEmpty(section)

\* a text without a Nodes section was loaded and converted
C20_Scenario == ConvertedWithout("Nodes")

\* C20, for the four sections other than Nodes
C20_OtherSections ==
    \A section \in LdfSections \ {"Nodes"} :
        (ConvertedWithout(section) /\ ~ConvertedWithout("Nodes")) => PartEmpty(section)

\* a text that has a Nodes section and lacks another section was converted
C20_OtherScenario ==
    /\ ~ConvertedWithout("Nodes")
    /\ \E section \in LdfSections : ConvertedWithout(section) /\ PartEmpty(section)

-----------------------------------------------------------------------------
\* load_and_convert was called on a text
Converted == loader # <<>> /\ loader.called = "load_and_convert"

\* the parsed data of the text has a node of type master
ParsedMaster(data) == \E i \in 1..Len(data.nodes) : data.nodes[i].type = "master"

\* C21: every LIN network returned by LDFLoader.load_and_convert has a master
\* node; when the parsed data of the text has no node of type master the call
\* raises ValidationError and to_model makes no object.
C21_MasterRequired ==
    Converted =>
      \E data \in {load(LdfPath, LdfText(loader.source))} :
        /\ \A network \in loader.network : network.master_node # None
        /\ ~ParsedMaster(data) =>
              /\ loader.error = Some("ValidationError")
              /\ loader.network = None
              /\ loader.objects = <<>>

\* a text without a Nodes section was rejected by load_and_convert
C21_Witness ==
    /\ Converted
    /\ \A i \in 1..Len(loader.source.order) : loader.source.order[i] # "Nodes"
    /\ loader.error = Some("ValidationError")

-----------------------------------------------------------------------------
\* the calls made so far on LDFLoader instances, in order
Parses == IF loader = <<>> THEN <<>> ELSE loader.results

\* C22: parsing the same LDF text twice, with two instances or with one
\* instance (also after it parsed a different file in between), gives the same
\* outcome: the same nodes, ordered frames with their ids and lengths, signal
\* lists with their offsets, and schedule tables with their delays and
\* positions.
C22_Idempotent ==
    \A i, j \in 1..Len(Parses) :
        Parses[i].source = Parses[j].source => Parses[i].model = Parses[j].model

\* one instance parsed a text, then a different text, then the first text again
C22_Witness ==
    /\ Len(Parses) = 3
    /\ Parses[1].source = Parses[3].source /\ Parses[2].source # Parses[1].source
    /\ Parses[1].instance = Parses[3].instance /\ Parses[2].instance = Parses[1].instance
    /\ Parses[1].model.network # None
    /\ Parses[2].model # Parses[1].model

-----------------------------------------------------------------------------
\* the loads made on the files of the file system
FileLoads == IF loader # <<>> /\ loader.called = "file" THEN loader.loads ELSE <<>>

\* C23: every failure of LDFLoader.load, a missing or unreadable file
\* included, is raised as a ParserError that carries the original cause, and
\* no other exception type leaves load.
C23_ParserErrorOnly ==
    \A i \in 1..Len(FileLoads) :
        \A e \in FileLoads[i].raised : e.type = "ParserError" /\ e.cause # None

\* C23, the failures that do not arrive as a ParserError: load of a path that
\* names nothing or a directory raises the loader's FileNotFoundError, load
\* of a file with another suffix raises UnsupportedFormatError, both without
\* a cause.
C23_BeforeTry ==
    \A i \in 1..Len(FileLoads) :
        LET file == FileLoads[i].file
            raised == FileLoads[i].raised
        IN  /\ file.there # "file" => raised = Some(Raised("FileNotFoundError", None))
            /\ file.there = "file" /\ file.path.suffix = ".txt"
                 => raised = Some(Raised("UnsupportedFormatError", None))

\* C23, the part that holds: once the path names a file with an .ldf suffix,
\* a failure of open(), of read() or of a section parser is a ParserError
\* whose cause is the exception raised, and a text without such a failure
\* is returned as data.
C23_InTry ==
    \A i \in 1..Len(FileLoads) :
        LET file == FileLoads[i].file
            raised == FileLoads[i].raised
        IN  file.there = "file" /\ file.path.suffix # ".txt" =>
              /\ ~file.readable => raised = Some(Raised("ParserError", Some("PermissionError")))
              /\ ~file.utf8 => raised = Some(Raised("ParserError", Some("UnicodeDecodeError")))
              /\ file.readable /\ file.utf8 /\ file.text.dotted # "none"
                   => raised = Some(Raised("ParserError", Some("ValueError")))
              /\ file.readable /\ file.utf8 /\ file.text.dotted = "none"
                   => raised = None /\ FileLoads[i].data # None

\* a load of a path that names nothing has raised FileNotFoundError
C23_Scenario ==
    \E i \in 1..Len(FileLoads) :
        /\ FileLoads[i].file.there = "missing"
        /\ FileLoads[i].raised = Some(Raised("FileNotFoundError", None))

-----------------------------------------------------------------------------
(* Vocabulary of the properties of the session's loads *)

LoadCalls == {"load_dbc", "load_ldf"}

\* the map a load call registers in
LoadedInto(call) == IF call = "load_dbc" THEN can_networks ELSE lin_networks

SessionEmpty == can_networks = <<>> /\ lin_networks = <<>> /\ source_files = <<>>

\* C24: load_dbc / load_ldf of a well-formed file with a non-empty
\* network_name N returns the network, registers it under key N with
\* network.name = N, and appends the resolved path to source_files; without
\* network_name the key is the file stem.
C24_NamedLoad ==
    called \in LoadCalls =>
      LET file == call_args[1]
          key == IF call_args[2] \in {None, Some("")} THEN file.path.stem
                 ELSE CHOOSE n \in call_args[2] : TRUE
          networks == LoadedInto(called)
      IN  file.gives \in {"model", "duplicates"} =>
            /\ result \in {"CANDatabase", "LINNetwork"}
            /\ key \in Keys(networks)
            /\ networks[DictGet(networks, key)].value.name = key
            /\ source_files # <<>>
            /\ source_files[Len(source_files)] = Resolve(file.path)

\* C24, the part that holds: without network_name (or with an empty one) the
\* load returns, the key and the name of the network are the file stem, and
\* the resolved path is the last source file.
C24_StemKey ==
    called \in LoadCalls /\ call_args[2] \in {None, Some("")}
    /\ call_args[1].gives \in {"model", "duplicates"} =>
        LET file == call_args[1]
            networks == LoadedInto(called)
        IN  /\ result \in {"CANDatabase", "LINNetwork"}
            /\ file.path.stem \in Keys(networks)
            /\ networks[DictGet(networks, file.path.stem)].value.name = file.path.stem
            /\ source_files # <<>>
            /\ source_files[Len(source_files)] = Resolve(file.path)

\* C24, what a network_name does: the load of a well-formed file raises
\* ECUCServiceException, caused by the assignment to short_name, and
\* nothing is registered under the name.
C24_NameRefused ==
    called \in LoadCalls /\ call_args[2] = Some("X")
    /\ call_args[1].gives \in {"model", "duplicates"} =>
        /\ result = "ECUCServiceException" /\ errors = <<"ValueError">>
        /\ "X" \notin Keys(LoadedInto(called))

\* a load of a well-formed file under a name has been refused
C24_Scenario ==
    /\ called = "load_ldf" /\ call_args[2] = Some("X") /\ call_args[1].gives = "model"
    /\ result = "ECUCServiceException"

\* C25: after clear() (as after construction) the session holds no network
\* and no source file, whatever was loaded and generated before; a following
\* validate_data returns True, and a following generate_ecuc_project returns
\* a project, which for the default module set has no module and no source
\* file.
C25_ClearEmpties ==
    [][ /\ called' = "None" => SessionEmpty'
        /\ called = "None" /\ called' = "validate_data" => result' = "True"
        /\ called = "None" /\ called' = "generate_ecuc_project" =>
              /\ result' = "ECUCProject"
              /\ call_args'[3] = None =>
                    \A p \in project' : /\ p.value_collection.modules = <<>>
                                        /\ p.source_files = <<>> ]_vars

\* a project with source files is kept, the session was cleared since, and
\* the generation that followed gave a project without modules
C25_Witness ==
    /\ \E h \in held : h.source_files.items # <<>>
    /\ SessionEmpty
    /\ called = "generate_ecuc_project" /\ call_args = <<"Demo", "ECU1", None>>
    /\ \E p \in project : p.value_collection.modules = <<>> /\ p.source_files = <<>>

\* C26: validate_data and generate_ecuc_project leave the network maps and
\* source_files as they are, whether they succeed or fail; validate_data
\* run again gives the same outcome; and a project the caller keeps,
\* its source_files included, reads the same after every later call.
C26_ReadOnly ==
    [][ /\ called' \in {"validate_data", "generate_ecuc_project"} =>
              UNCHANGED <<can_networks, lin_networks, source_files>>
        /\ called = "validate_data" /\ called' = "validate_data" =>
              errors' = errors /\ result' = result
        /\ held' = held => HeldProject' = HeldProject ]_vars

\* a project is kept, the session has other source files now than the
\* project lists, and validation has just failed
C26_Witness ==
    /\ \E p \in HeldProject : p.source_files # source_files
    /\ called = "validate_data" /\ result = "ValidationError"

\* the parameters of a container and of the containers below it
RECURSIVE ContainerParameters(_)
ContainerParameters(c) ==
    c.parameters
    \o Flatten([i \in 1..Len(c.sub_containers) |-> ContainerParameters(c.sub_containers[i])])

\* the parameters of a project
ProjectParameters(p) ==
    LET modules == p.value_collection.modules
    IN  Flatten([m \in 1..Len(modules) |->
           Flatten([i \in 1..Len(modules[m].containers) |->
              ContainerParameters(modules[m].containers[i])])])

\* the literal is of the kind the tag names (the membership is defined for
\* a literal of that kind only)
LiteralOfKind(value_type, v) ==
    CASE value_type = "INTEGER" -> v \in Int
      [] value_type = "BOOLEAN" -> v \in BOOLEAN
      [] value_type = "STRING"  -> v \in STRING
      [] OTHER -> FALSE

\* C27: every parameter of a generated project that is not a reference has
\* a literal value, of the kind its tag names, and no reference value, also
\* for CAN networks without a baud rate.
C27_ParameterXor ==
    \A p \in project : \A k \in 1..Len(ProjectParameters(p)) :
        LET q == ProjectParameters(p)[k] IN
        /\ q.value # None
        /\ \A v \in q.value : LiteralOfKind(q.value_type, v)
        /\ q.reference_value = None

\* C27, the part that holds: no parameter has a reference value, every
\* literal is of the kind of its tag, and the parameters without a literal
\* are the CanControllerBaudRate parameters of the generated project.
C27_OnlyBaudRate ==
    \A p \in project : \A k \in 1..Len(ProjectParameters(p)) :
        LET q == ProjectParameters(p)[k] IN
        /\ q.reference_value = None
        /\ \A v \in q.value : LiteralOfKind(q.value_type, v)
        /\ q.value = None => q.short_name = "CanControllerBaudRate"

\* a project has been generated from a loaded DBC file
C27_Scenario ==
    \E p \in project : \E k \in 1..Len(ProjectParameters(p)) :
        LET q == ProjectParameters(p)[k] IN
        q.short_name = "CanControllerBaudRate" /\ q.value = None

\* C28: a load_dbc / load_ldf that fails (the loader raises, or the naming
\* does) raises ECUCServiceException and leaves both network maps and
\* source_files as they were; a load that returns appends the resolved path
\* and registers the network in the map of its kind; no other call but
\* clear changes the maps or source_files.
C28_FailedLoadNoEffect ==
    [][ /\ called' \in LoadCalls =>
              LET file == call_args'[1] IN
              /\ (file.gives \notin {"model", "duplicates"} \/ call_args'[2] = Some("X"))
                    => result' = "ECUCServiceException"
              /\ result' = "ECUCServiceException" =>
                    UNCHANGED <<can_networks, lin_networks, source_files>>
              /\ result' # "ECUCServiceException" =>
                    /\ source_files' = Append(source_files, Resolve(file.path))
                    /\ IF called' = "load_dbc"
                       THEN file.path.stem \in Keys(can_networks') /\ UNCHANGED lin_networks
                       ELSE file.path.stem \in Keys(lin_networks') /\ UNCHANGED can_networks
        /\ called' \notin LoadCalls \cup {"None"} =>
              UNCHANGED <<can_networks, lin_networks, source_files>> ]_vars

\* a load has failed in the conversion on a session that holds a network
C28_Witness ==
    /\ called = "load_ldf" /\ result = "ECUCServiceException"
    /\ errors = <<"ConversionError">>
    /\ can_networks # <<>> /\ Len(source_files) = 1

-----------------------------------------------------------------------------
\* the last run of the template
TemplateRan == loader # <<>> /\ loader.called = "template"

\* C29: load_and_convert calls load, then validate, then to_model, each at
\* most once and in that order; validate is called only if load returned,
\* to_model only if validate returned, a model is returned only if all
\* three steps returned; a LoaderException of a step leaves the call as it
\* is, any other exception leaves it wrapped in a LoaderException.
C29_TemplateOrder ==
    TemplateRan =>
      LET steps == loader.steps
          calls == loader.calls
          Called(step) == \E i \in 1..Len(calls) : calls[i] = step
          \* the exception of the step called last, if that step raised
          failed == IF calls = <<"load">> THEN steps.load.raises
                    ELSE IF calls = <<"load", "validate">> THEN steps.validate.raises
                    ELSE steps.to_model.raises
      IN  /\ \E n \in 1..3 : calls = SubSeq(<<"load", "validate", "to_model">>, 1, n)
          /\ Called("validate") => steps.load.returns # None
          /\ Called("to_model") => steps.load.returns # None /\ steps.validate.returns # None
          /\ loader.returned # None =>
               /\ steps.load.returns # None /\ steps.validate.returns # None
               /\ loader.returned = steps.to_model.returns
               /\ loader.raised = None
          /\ loader.returned = None => loader.raised # None
          /\ \A e \in failed :
               /\ e \in LoaderExceptions => loader.raised = Some(Raised(e, None))
               /\ e \notin LoaderExceptions =>
                    loader.raised = Some(Raised("LoaderException", Some(e)))

\* validate has raised the loader's ValidationError, which left the call as
\* it is, and to_model was not called
C29_Witness ==
    /\ TemplateRan
    /\ loader.calls = <<"load", "validate">>
    /\ loader.steps.validate = Raises("ValidationError")
    /\ loader.raised = Some(Raised("ValidationError", None))

\* the calls made on the cached loader
CacheLog == IF loader # <<>> /\ loader.called = "cached" THEN loader.log ELSE <<>>

\* call j follows call i with no clear_cache in between
SameCacheEpoch(i, j) ==
    i < j /\ \A k \in i..j : CacheLog[k].call = "load_and_convert"

\* call i was made with use_cache=True and returned a model
CachedAt(i) ==
    /\ CacheLog[i].call = "load_and_convert"
    /\ CacheLog[i].use_cache /\ CacheLog[i].returned # None

\* C30: after a load_and_convert(path, use_cache=True) that returned, every
\* later call with use_cache=True for a path resolving to the same file, up
\* to the next clear_cache, returns that model without calling load,
\* validate or to_model; a call that failed caches nothing; a call with
\* use_cache=False runs the steps and leaves the cache alone; the first call
\* after clear_cache runs the steps.
C30_ParsedOnce ==
    \A j \in 1..Len(CacheLog) :
      CacheLog[j].call = "load_and_convert" =>
        LET cached == {i \in 1..(j - 1) :
                          /\ SameCacheEpoch(i, j) /\ CachedAt(i)
                          /\ ResolvedPath(CacheLog[i].file_path)
                               = ResolvedPath(CacheLog[j].file_path)}
        IN  /\ CacheLog[j].use_cache /\ cached # {} =>
                /\ CacheLog[j].calls = <<>>
                /\ \A i \in cached : CacheLog[j].returned = CacheLog[i].returned
            /\ (~CacheLog[j].use_cache \/ cached = {}) => CacheLog[j].calls # <<>>
            /\ CacheLog[j].calls # <<>> =>
                  (CacheLog[j].returned # None
                     <=> CacheLog[j].steps.load.raises = None)

\* a file parsed once is not parsed again under another path naming it,
\* though the file is malformed by then
C30_Witness ==
    /\ Len(CacheLog) = 3
    /\ CachedAt(1) /\ CacheLog[1].file_path = "a.ldf" /\ CacheLog[1].calls # <<>>
    /\ CacheLog[2].call = "load_and_convert" /\ ~CacheLog[2].use_cache
    /\ CacheLog[2].raised # None
    /\ CacheLog[3].call = "load_and_convert" /\ CacheLog[3].use_cache
    /\ CacheLog[3].file_path = "./a.ldf" /\ CacheLog[3].steps.load.raises # None
    /\ CacheLog[3].calls = <<>> /\ CacheLog[3].returned = CacheLog[1].returned

====
